---- MODULE Spec2Model ----
(***************************************************************************)
(* State-machine model of the freelance order parser bot:                  *)
(*   parsers/freelancespace_parser_simple.py  (paginated adapter, "FS")    *)
(*   parsers/fl_parser.py                     (index-then-detail, "FL")    *)
(*   parsers/combined_parser.py               (aggregator)                 *)
(*   telegram_bot_combined.py                 (asyncio bot: timer loops,   *)
(*                                             /parse and /toggle)         *)
(*                                                                         *)
(* Strings of the program are modelled by what the code reads in them.     *)
(* A recency phrase ("2 часа назад") is a record                           *)
(*   [str   : TRUE (the value is a str),                                   *)
(*    nums  : the runs of digits, in order (re.findall(r'\d+')),           *)
(*    words : the words of the phrase, in order].                          *)
(* Cyrillic words are written in Latin transliteration:                    *)
(*   "Недавно" -> "Nedavno", "секунд" -> "sekund", "минут" -> "minut",     *)
(*   "час" -> "chas", "день" -> "den", "дня" -> "dnya", "дней" -> "dney",  *)
(*   "недел" -> "nedel", "месяц" -> "mesyats", "назад" -> "nazad".         *)
(* A word stands for the word stem the code's substring test looks for.    *)
(***************************************************************************)
EXTENDS Integers, Sequences, FiniteSets, TLC

(***************************************************************************)
(* Generic sequence helpers.                                               *)
(***************************************************************************)
Range(s) == { s[i] : i \in DOMAIN s }

SeqsUpTo(S, n) == UNION { [1..k -> S] : k \in 0..n }

Ids(orders) == { orders[i].id : i \in DOMAIN orders }

IdSeq(orders) == [ i \in DOMAIN orders |-> orders[i].id ]

(***************************************************************************)
(* Recency phrases.                                                        *)
(***************************************************************************)
Phrase(nums, words) == [ str |-> TRUE, nums |-> nums, words |-> words ]

\* a value of 'published' that is not a str and not falsy (a number, a tag):
\* it has no method lower()
NotAString == [ str |-> FALSE, nums |-> << >>, words |-> << >> ]

\* the outcome of a call that raises instead of returning a number
Raised == -1

EmptyPhrase == Phrase(<< >>, << >>)

\* published = "Недавно": the default of both extractors
Recent == Phrase(<< >>, <<"Nedavno">>)

\* str.lower() on the words the model knows in capitalised form
LowerWord(w) ==
  CASE w = "Nedavno" -> "nedavno"
    [] w = "Chas"    -> "chas"
    [] w = "Minut"   -> "minut"
    [] OTHER         -> w

Lower(p) == Phrase(p.nums, [ i \in DOMAIN p.words |-> LowerWord(p.words[i]) ])

\* 'stem' in time_str
Contains(p, stem) == \E i \in DOMAIN p.words : p.words[i] = stem

Max(a, b) == IF a >= b THEN a ELSE b

\* a variant that tests 'chas' before 'minut'
time_to_minutes_hours_first(time_str) ==
  IF time_str = EmptyPhrase \/ time_str = Recent THEN 0
  ELSE IF ~time_str.str THEN Raised
  ELSE LET s == Lower(time_str) IN
    IF s.nums = << >> THEN 0
    ELSE LET num == s.nums[1] IN
      IF Contains(s, "sekund") THEN Max(1, num \div 60)
      ELSE IF Contains(s, "chas") THEN num * 60
      ELSE IF Contains(s, "minut") THEN num
      ELSE IF Contains(s, "den") \/ Contains(s, "dnya") \/ Contains(s, "dney")
           THEN num * 24 * 60
      ELSE IF Contains(s, "nedel") THEN num * 7 * 24 * 60
      ELSE IF Contains(s, "mesyats") THEN num * 30 * 24 * 60
      ELSE 0

\* a variant without the `if not numbers` test: numbers[0] raises IndexError
time_to_minutes_unguarded(time_str) ==
  IF time_str = EmptyPhrase \/ time_str = Recent THEN 0
  ELSE IF ~time_str.str THEN Raised
  ELSE LET s == Lower(time_str) IN
    IF s.nums = << >> THEN Raised
    ELSE LET num == s.nums[1] IN
      IF Contains(s, "sekund") THEN Max(1, num \div 60)
      ELSE IF Contains(s, "minut") THEN num
      ELSE IF Contains(s, "chas") THEN num * 60
      ELSE IF Contains(s, "den") \/ Contains(s, "dnya") \/ Contains(s, "dney")
           THEN num * 24 * 60
      ELSE IF Contains(s, "nedel") THEN num * 7 * 24 * 60
      ELSE IF Contains(s, "mesyats") THEN num * 30 * 24 * 60
      ELSE 0

\* time_to_minutes: the sort key (minutes ago); an if/elif chain, first match wins
time_to_minutes(time_str) ==
  IF time_str = EmptyPhrase \/ time_str = Recent THEN 0
  ELSE IF ~time_str.str THEN Raised        \* time_str.lower(): AttributeError
  ELSE LET s == Lower(time_str) IN
    IF s.nums = << >> THEN 0
    ELSE LET num == s.nums[1] IN
      IF Contains(s, "sekund") THEN Max(1, num \div 60)
      ELSE IF Contains(s, "minut") THEN num
      ELSE IF Contains(s, "chas") THEN num * 60
      ELSE IF Contains(s, "den") \/ Contains(s, "dnya") \/ Contains(s, "dney")
           THEN num * 24 * 60
      ELSE IF Contains(s, "nedel") THEN num * 7 * 24 * 60
      ELSE IF Contains(s, "mesyats") THEN num * 30 * 24 * 60
      ELSE 0

(***************************************************************************)
(* Orders.  An order is the dict the extractors build; the model keeps the *)
(* fields the pipeline reads (id, published, source) and `listing`, which  *)
(* stands for the listing's own content (title, url, description).         *)
(***************************************************************************)
Order(id, source, published, listing) ==
  [ id |-> id, source |-> source, published |-> published, listing |-> listing ]

\* lambda x: time_to_minutes(x.get('published', ''))
SortKey(order) == time_to_minutes(order.published)

\* sorted() computes the key of each element once; the sort below works on
\* the positions 1..Len(orders) and the keys at them.
\* Insertion of position i behind every position whose key is >= its own:
\* what a stable sort with reverse=True does to an element that arrives
\* after those in `sorted`.
RECURSIVE InsertDesc(_, _, _)
InsertDesc(keys, sorted, i) ==
  IF sorted = << >> THEN << i >>
  ELSE IF keys[Head(sorted)] >= keys[i]
       THEN << Head(sorted) >> \o InsertDesc(keys, Tail(sorted), i)
       ELSE << i >> \o sorted

RECURSIVE SortedDesc(_, _, _)
SortedDesc(keys, sorted, i) ==
  IF i > Len(keys) THEN sorted
  ELSE SortedDesc(keys, InsertDesc(keys, sorted, i), i + 1)

\* a variant: sorted(orders, key=...)[::-1], ascending and then reversed,
\* which turns the arrival order of equal keys around
sort_orders_ascending_reversed(orders) ==
  LET n == Len(orders)
      rev == [ k \in 1..n |-> orders[n + 1 - k] ]
      keys == [ i \in 1..n |-> SortKey(rev[i]) ]
      perm == SortedDesc(keys, << >>, 1)
  IN [ k \in 1..n |-> rev[perm[k]] ]

\* a variant: the except branch returns the orders whose key was computed
sort_orders_dropping_failed(orders) ==
  LET ok == SelectSeq(orders, LAMBDA o : SortKey(o) # Raised)
      keys == [ i \in DOMAIN ok |-> SortKey(ok[i]) ]
      perm == SortedDesc(keys, << >>, 1)
  IN [ k \in DOMAIN ok |-> ok[perm[k]] ]

\* _sort_orders_by_time: sorted(orders, key=..., reverse=True) computes every
\* key before it orders anything; a key that raises takes the except branch,
\* which returns `orders` as it came
sort_orders_by_time(orders) ==
  IF \E i \in DOMAIN orders : SortKey(orders[i]) = Raised THEN orders
  ELSE LET keys == [ i \in DOMAIN orders |-> SortKey(orders[i]) ]
           perm == SortedDesc(keys, << >>, 1)
       IN [ k \in DOMAIN orders |-> orders[perm[k]] ]

(***************************************************************************)
(* What the two sites serve (the environment).  A listing is one job       *)
(* posting.  Listing "A" is posted on both sites; "C" only on              *)
(* freelancespace.ru, "B" only on fl.ru.                                   *)
(* FsOrderParam is the value after 'order?id=' in the listing's link on    *)
(* freelancespace.ru; any text may stand there, also one that reads like   *)
(* an id of the other adapter ("fl_2").  FlProjectNum is the number in     *)
(* /projects/<number>/ of the listing's link on fl.ru.                     *)
(***************************************************************************)
FsListings == { "A", "C" }

FlListings == { "A", "B" }

Listings == FsListings \cup FlListings

FsOrderParam(listing) == IF listing = "A" THEN "7" ELSE "fl_2"

FlProjectNum(listing) == IF listing = "A" THEN "1" ELSE "2"

\* a candidate block of a freelancespace.ru page, as the Block Locator hands
\* it to _extract_order_data; a malformed block has no h2 > a title
FsBlock(listing, published) ==
  [ kind |-> "order", listing |-> listing, param |-> FsOrderParam(listing),
    published |-> published ]

MalformedBlock ==
  [ kind |-> "malformed", listing |-> "-", param |-> "", published |-> EmptyPhrase ]

\* one response of the paginated API
OkPage(blocks) == [ status |-> "ok", blocks |-> blocks ]

FailedPage(how) == [ status |-> how, blocks |-> << >> ]

\* the outcomes of session.post that are not a 200 response with a body that
\* parses: requests.Timeout, requests.ConnectionError, a status other than
\* 200, any other exception
FailKinds == { "timeout", "conn", "http", "exc" }

\* page `page` of the site: a site of n pages answers an empty page past n
PageAt(site, page) == IF page \in DOMAIN site THEN site[page] ELSE OkPage(<< >>)

\* an h2 element of the fl.ru index page: its link (a project link, none, or
\* a category link), and what the fetch of the project's own page gives
FlItem(link, listing, detail, published) ==
  [ link |-> link, listing |-> listing, num |-> FlProjectNum(listing),
    detail |-> detail, published |-> published ]

FlIndex(status, h2) == [ status |-> status, h2 |-> h2 ]

(***************************************************************************)
(* FreelanceSpaceParserSimple                                              *)
(***************************************************************************)
\* str(abs(hash(title + url))): a digit string fixed by the listing
FsHashId(listing) == "h" \o listing

\* _extract_order_data: None (here << >>) without a title, else the order
extract_order_data(block) ==
  IF block.kind # "order" THEN << >>
  ELSE LET order_id == IF block.param # "" THEN block.param
                       ELSE FsHashId(block.listing)
       IN << Order(order_id, "freelancespace.ru", block.published, block.listing) >>

\* _parse_html_response, the extraction loop over order_blocks
RECURSIVE parse_html_response(_)
parse_html_response(blocks) ==
  IF blocks = << >> THEN << >>
  ELSE extract_order_data(Head(blocks)) \o parse_html_response(Tail(blocks))

\* parse_orders before its first request: all_orders, and the pages
\* requested with session.post so far
NoFetch == [ orders |-> << >>, requested |-> << >> ]

\* a variant: every except clause ends with `continue`
RECURSIVE parse_pages_continue(_, _, _, _)
parse_pages_continue(site, page, max_pages, acc) ==
  IF page > max_pages THEN acc
  ELSE LET response == PageAt(site, page)
           asked == [ acc EXCEPT !.requested = Append(@, page) ]
       IN
    IF response.status \in { "timeout", "conn", "exc" }
    THEN parse_pages_continue(site, page + 1, max_pages, asked)
    ELSE IF response.status # "ok" THEN asked
    ELSE LET orders == parse_html_response(response.blocks) IN
      IF orders = << >> THEN asked
      ELSE parse_pages_continue(site, page + 1, max_pages,
                                [ asked EXCEPT !.orders = @ \o orders ])

\* a variant: `while True` with a page counter, no ceiling, until a page
\* yields no order or a request fails
RECURSIVE parse_pages_no_ceiling(_, _, _, _)
parse_pages_no_ceiling(site, page, max_pages, acc) ==
  LET response == PageAt(site, page)
      asked == [ acc EXCEPT !.requested = Append(@, page) ]
  IN
    IF response.status # "ok" THEN asked
    ELSE LET orders == parse_html_response(response.blocks) IN
      IF orders = << >> THEN asked
      ELSE parse_pages_no_ceiling(site, page + 1, max_pages,
                                  [ asked EXCEPT !.orders = @ \o orders ])

\* a variant: the last except clause ends with `break` like the others
RECURSIVE parse_pages_break(_, _, _, _)
parse_pages_break(site, page, max_pages, acc) ==
  IF page > max_pages THEN acc
  ELSE LET response == PageAt(site, page)
           asked == [ acc EXCEPT !.requested = Append(@, page) ]
       IN
    IF response.status # "ok" THEN asked
    ELSE LET orders == parse_html_response(response.blocks) IN
      IF orders = << >> THEN asked
      ELSE parse_pages_break(site, page + 1, max_pages,
                             [ asked EXCEPT !.orders = @ \o orders ])

\* the page loop of parse_orders from page `page` on; acc is the state of
\* the loop so far
RECURSIVE parse_pages(_, _, _, _)
parse_pages(site, page, max_pages, acc) ==
  IF page > max_pages THEN acc
  ELSE LET response == PageAt(site, page)
           asked == [ acc EXCEPT !.requested = Append(@, page) ]
       IN
    IF response.status \in { "timeout", "conn" } THEN asked        \* break
    ELSE IF response.status = "exc"
         THEN parse_pages(site, page + 1, max_pages, asked)        \* continue
    ELSE IF response.status # "ok" THEN asked                      \* break
    ELSE LET orders == parse_html_response(response.blocks) IN
      IF orders = << >> THEN asked                                 \* break
      ELSE parse_pages(site, page + 1, max_pages,
                       [ asked EXCEPT !.orders = @ \o orders ])

\* the page loop of parse_orders, from its start
fetch_pages(site, max_pages) == parse_pages(site, 1, max_pages, NoFetch)

\* parse_orders: the page loop, then _sort_orders_by_time
parse_orders(site, max_pages) ==
  sort_orders_by_time(fetch_pages(site, max_pages).orders)

\* the filter loop of get_new_orders: [new |-> new_orders, sent |-> sent_orders]
RECURSIVE FilterNew(_, _, _)
FilterNew(orders, new, sent) ==
  IF orders = << >> THEN [ new |-> new, sent |-> sent ]
  ELSE LET order == Head(orders) IN
    IF order.id # "" /\ order.id \notin sent
    THEN FilterNew(Tail(orders), Append(new, order), sent \cup { order.id })
    ELSE FilterNew(Tail(orders), new, sent)

\* a variant: the new ids are not added to sent_orders
fs_get_new_orders_unmarked(site, max_pages, sent) ==
  [ new |-> FilterNew(parse_orders(site, max_pages), << >>, sent).new,
    sent |-> sent ]

\* a variant: the orders are tested against sent_orders as it was before the
\* call, and their ids are added after the loop
fs_get_new_orders_per_batch(site, max_pages, sent) ==
  LET new == SelectSeq(parse_orders(site, max_pages),
                       LAMBDA o : o.id # "" /\ o.id \notin sent)
  IN [ new |-> new, sent |-> sent \cup Ids(new) ]

\* FreelanceSpaceParserSimple.get_new_orders
fs_get_new_orders(site, max_pages, sent) ==
  FilterNew(parse_orders(site, max_pages), << >>, sent)

(***************************************************************************)
(* FLParser                                                                *)
(***************************************************************************)
\* f"fl_{order_id_match.group(1)}"
FlOrderId(num) == "fl_" \o num

\* _extract_order_from_individual_page with _parse_individual_page: None
\* (here << >>) when the fetch of the project page fails
extract_order_from_individual_page(item) ==
  IF item.detail # "ok" THEN << >>
  ELSE << Order(FlOrderId(item.num), "FL.ru", item.published, item.listing) >>

\* a request of the FL adapter: session.get of the index page, or of the
\* page of project `num`, and whether it gave a page
FlRequest(kind, num, ok) == [ kind |-> kind, num |-> num, ok |-> ok ]

\* the loop of _parse_page over the h2 elements; acc is the state of the
\* loop so far: orders, and the requests made
RECURSIVE parse_h2(_, _, _)
parse_h2(h2, max_orders, acc) ==
  IF h2 = << >> THEN acc
  ELSE IF max_orders > 0 /\ Len(acc.orders) >= max_orders THEN acc  \* break
  ELSE IF Head(h2).link # "project"
       THEN parse_h2(Tail(h2), max_orders, acc)                    \* continue
  ELSE parse_h2(Tail(h2), max_orders,
                [ orders |-> acc.orders
                               \o extract_order_from_individual_page(Head(h2)),
                  requests |-> Append(acc.requests,
                                      FlRequest("detail", Head(h2).num,
                                                Head(h2).detail = "ok")) ])

\* _parse_page with what it requested: the index page, then the project pages
fetch_index(index, max_orders) ==
  LET asked == [ orders |-> << >>,
                 requests |-> << FlRequest("index", "", index.status = "ok") >> ]
  IN IF index.status # "ok" THEN asked ELSE parse_h2(index.h2, max_orders, asked)

\* _parse_page: [] when the index page cannot be fetched
parse_page(index, max_orders) == fetch_index(index, max_orders).orders

FlMaxOrders == 5

\* a variant: every extracted order is appended, without the test of
\* sent_orders
fl_get_new_orders_unfiltered(index, sent) ==
  LET orders == parse_page(index, FlMaxOrders)
  IN [ new |-> orders, sent |-> sent \cup Ids(orders) ]

\* FLParser.get_new_orders
fl_get_new_orders(index, sent) ==
  FilterNew(parse_page(index, FlMaxOrders), << >>, sent)

(***************************************************************************)
(* CombinedParser                                                          *)
(***************************************************************************)
\* the loop of _filter_unique_orders:
\* [unique |-> unique_orders, sent |-> self.sent_orders]
RECURSIVE FilterUnique(_, _, _, _)
FilterUnique(orders, unique, seen_ids, sent) ==
  IF orders = << >> THEN [ unique |-> unique, sent |-> sent ]
  ELSE LET order == Head(orders) IN
    IF order.id # "" /\ order.id \notin seen_ids /\ order.id \notin sent
    THEN FilterUnique(Tail(orders), Append(unique, order),
                      seen_ids \cup { order.id }, sent \cup { order.id })
    ELSE FilterUnique(Tail(orders), unique, seen_ids, sent)

\* a variant: no seen_ids, and the ids are added to sent_orders after the
\* loop, so two records of one batch with the same id both pass
filter_unique_orders_per_batch(orders, sent) ==
  LET unique == SelectSeq(orders, LAMBDA o : o.id # "" /\ o.id \notin sent)
  IN [ unique |-> unique, sent |-> sent \cup Ids(unique) ]

\* a variant: only seen_ids is tested, not self.sent_orders
filter_unique_orders_seen_only(orders, sent) ==
  LET r == FilterUnique(orders, << >>, { }, { })
  IN [ unique |-> r.unique, sent |-> sent \cup r.sent ]

\* a variant: the ids that pass are not added to self.sent_orders
filter_unique_orders_unmarked(orders, sent) ==
  [ unique |-> FilterUnique(orders, << >>, { }, sent).unique, sent |-> sent ]

\* _filter_unique_orders
filter_unique_orders(orders, sent) == FilterUnique(orders, << >>, { }, sent)

\* pages: int = 3, the default every caller of the bots uses
DefaultPages == 3

\* a variant: one try block around both adapters, and the FreelanceSpace
\* adapter lets a failed request through as an exception: FL.ru is not asked
combined_get_new_orders_one_try(fs_site, fl_index, pages, fs_sent, fl_sent, cp_sent) ==
  LET fetch == fetch_pages(fs_site, pages)
      broke == \E k \in Range(fetch.requested) : PageAt(fs_site, k).status # "ok"
      fs  == IF broke THEN [ new |-> << >>, sent |-> fs_sent ]
             ELSE fs_get_new_orders(fs_site, pages, fs_sent)
      fl  == IF broke THEN [ new |-> << >>, sent |-> fl_sent ]
             ELSE fl_get_new_orders(fl_index, fl_sent)
      all_orders == fs.new \o fl.new
      uniq == filter_unique_orders(all_orders, cp_sent)
  IN [ fs_new |-> fs.new, fl_new |-> fl.new, all_orders |-> all_orders,
       unique |-> uniq.unique, out |-> sort_orders_by_time(uniq.unique),
       fs_sent |-> fs.sent, fl_sent |-> fl.sent, cp_sent |-> uniq.sent ]

\* CombinedParser.get_new_orders: both adapters in turn, then the filter and
\* the sort.  The record holds the intermediate lists and the three
\* sent_orders sets as the call leaves them.
combined_get_new_orders(fs_site, fl_index, pages, fs_sent, fl_sent, cp_sent) ==
  LET fs  == fs_get_new_orders(fs_site, pages, fs_sent)
      fl  == fl_get_new_orders(fl_index, fl_sent)
      all_orders == fs.new \o fl.new
      uniq == filter_unique_orders(all_orders, cp_sent)
  IN [ fs_new |-> fs.new, fl_new |-> fl.new, all_orders |-> all_orders,
       unique |-> uniq.unique, out |-> sort_orders_by_time(uniq.unique),
       fs_sent |-> fs.sent, fl_sent |-> fl.sent, cp_sent |-> uniq.sent ]

(***************************************************************************)
(* Bounds of the model and the sites' contents it draws from.              *)
(***************************************************************************)
\* pages of the freelancespace.ru site that hold a listing
MaxFsPages == 2

\* h2 elements on the fl.ru index page
MaxFlItems == 1

\* periodic_parse tasks alive at once
MaxLoops == 2

\* a history counter stops counting here
CountCap == 3

P120 == Phrase(<<2>>, <<"chas", "nazad">>)

P60 == Phrase(<<60>>, <<"minut", "nazad">>)

FsPhrases == { Recent, P120 }

FlPhrases == { P60, P120 }

FsBlocks == { FsBlock(l, p) : l \in FsListings, p \in FsPhrases }

FlItems == { FlItem("project", l, "ok", p) : l \in FlListings, p \in FlPhrases }

\* the parser-level specification ranges over sites of up to MaxFsPages
\* pages of one listing each, and of up to MaxFlItems project links
FsPages == { OkPage(<< b >>) : b \in FsBlocks }

AllIds == { FsOrderParam(l) : l \in FsListings }
          \cup { FlOrderId(FlProjectNum(l)) : l \in FlListings }

Bump(f, x) == [ f EXCEPT ![x] = IF @ < CountCap THEN @ + 1 ELSE @ ]

RECURSIVE BumpAll(_, _)
BumpAll(f, xs) == IF xs = << >> THEN f ELSE BumpAll(Bump(f, Head(xs)), Tail(xs))

ListingSeq(orders) == [ i \in DOMAIN orders |-> orders[i].listing ]

(***************************************************************************)
(* State.                                                                  *)
(***************************************************************************)
VARIABLES
  fs_site,            \* what freelancespace.ru serves now (pages)
  fl_site,            \* what fl.ru serves now (index page and project pages)
  fs_sent_orders,     \* FreelanceSpaceParserSimple.sent_orders
  fl_sent_orders,     \* FLParser.sent_orders
  sent_orders,        \* CombinedParser.sent_orders
  is_parsing_active,  \* FreelanceParserBotCombined.is_parsing_active
  app,                \* "constructed", "starting" (run() before polling), "polling"
  loops,              \* the periodic_parse tasks, by slot
  handler,            \* the update handler the Application runs (one at a time)
  call,               \* history: the last CombinedParser.get_new_orders call
  fs_returned,        \* history: id -> times the FS adapter returned it
  fl_returned,        \* history: id -> times the FL adapter returned it
  cp_returned,        \* history: id -> times the aggregator returned it
  cp_listings,        \* history: listing -> records the aggregator returned for it
  notified,           \* history: id -> times send_order_notification was called
  normalizer,         \* a call of time_to_minutes: its argument and its result
  sorter,             \* a call of _sort_orders_by_time: its argument and its result
  locator,            \* a call of the block search of _parse_html_response
  cycle,              \* a call of CombinedParser.get_new_orders, loop by loop
  extractor           \* the extraction of one field, from what it scans

parser_vars == << fs_sent_orders, fl_sent_orders, sent_orders >>

site_vars == << fs_site, fl_site >>

bot_vars == << is_parsing_active, app, loops, handler, notified >>

hist_vars == << call, fs_returned, fl_returned, cp_returned, cp_listings >>

\* the functions called on their own
unit_vars == << normalizer, sorter, locator, cycle, extractor >>

vars == << site_vars, parser_vars, bot_vars, hist_vars, unit_vars >>

\* a task that runs parse_and_notify: where it is, the list it delivers, the
\* index of the delivery it is suspended in; history: the ids handed to the
\* notifier in this cycle, whether a delivery of the cycle has failed,
\* whether /toggle ran during the cycle while orders were still to deliver,
\* and whether the cycle started while another task was suspended in a
\* delivery
Task(pc, out, idx, log, failed, toggled, overlapped) ==
  [ pc |-> pc, out |-> out, idx |-> idx, log |-> log, failed |-> failed,
    toggled |-> toggled, overlapped |-> overlapped ]

Idle(pc) == Task(pc, << >>, 0, << >>, FALSE, FALSE, FALSE)

NoCall ==
  [ op |-> "none", fs_site |-> << >>, fl_site |-> FlIndex("ok", << >>),
    fs_before |-> { }, fl_before |-> { }, cp_before |-> { },
    fs_fetch |-> NoFetch,
    fl_fetch |-> [ orders |-> << >>, requests |-> << >> ],
    fs_new |-> << >>, fl_new |-> << >>, all_orders |-> << >>,
    unique |-> << >>, out |-> << >> ]

\* __init__ of the bot and of the three parsers, and the history at its start
InitProcess ==
  /\ fs_sent_orders = { }
  /\ fl_sent_orders = { }
  /\ sent_orders = { }
  /\ is_parsing_active = TRUE
  /\ app = "constructed"
  /\ loops = [ i \in 1..MaxLoops |-> Idle("none") ]
  /\ handler = Idle("idle")
  /\ call = NoCall
  /\ fs_returned = [ i \in AllIds |-> 0 ]
  /\ fl_returned = [ i \in AllIds |-> 0 ]
  /\ cp_returned = [ i \in AllIds |-> 0 ]
  /\ cp_listings = [ l \in Listings |-> 0 ]
  /\ notified = [ i \in AllIds |-> 0 ]

\* CombinedParser.get_new_orders not called: where the call is (pc), the page
\* the FreelanceSpace loop is at and its all_orders, the h2 elements the FL
\* loop has still to visit and its orders, the lists the adapters returned,
\* the list the call returns; history: the three sent_orders at the start
NoCycle ==
  [ pc |-> "idle", page |-> 0, all_orders |-> << >>, h2 |-> << >>, orders |-> << >>,
    fs_new |-> << >>, fl_new |-> << >>, out |-> << >>,
    fs_before |-> { }, fl_before |-> { }, cp_before |-> { } ]

\* no call made yet
NoCallOf(arg) == [ arg |-> arg, result |-> << >>, done |-> FALSE ]

\* the process at its start, the sites with no order yet
Init ==
  /\ fs_site = << >>
  /\ fl_site = FlIndex("ok", << >>)
  /\ InitProcess
  /\ normalizer = NoCallOf(EmptyPhrase)
  /\ sorter = NoCallOf(<< >>)
  /\ locator = NoCallOf(<< >>)
  /\ cycle = NoCycle
  /\ extractor = NoCallOf(<< >>)

(***************************************************************************)
(* The environment: the sites change between fetches, one listing at a     *)
(* time: a listing is added at the end, the last one is withdrawn, or one  *)
(* is replaced (another listing, or the same listing with another recency  *)
(* phrase).  `call` is the last call made on the sites as they are now.    *)
(***************************************************************************)
SiteEdits(site, items, max) ==
  ( (IF Len(site) < max THEN { Append(site, x) : x \in items } ELSE { })
    \cup (IF site # << >> THEN { SubSeq(site, 1, Len(site) - 1) } ELSE { })
    \cup { [ site EXCEPT ![i] = x ] : i \in DOMAIN site, x \in items } )
  \ { site }

FsSiteChanges ==
  /\ fs_site' \in SiteEdits(fs_site, FsPages, MaxFsPages)
  /\ call' = NoCall
  /\ UNCHANGED << fl_site, parser_vars, bot_vars,
                  fs_returned, fl_returned, cp_returned, cp_listings >>
  /\ UNCHANGED unit_vars

FlSiteChanges ==
  /\ \E h2 \in SiteEdits(fl_site.h2, FlItems, MaxFlItems) :
       fl_site' = FlIndex("ok", h2)
  /\ call' = NoCall
  /\ UNCHANGED << fs_site, parser_vars, bot_vars,
                  fs_returned, fl_returned, cp_returned, cp_listings >>
  /\ UNCHANGED unit_vars

(***************************************************************************)
(* One call of CombinedParser.get_new_orders on the sites as they are.     *)
(***************************************************************************)
CallResult(fs, fl) ==
  combined_get_new_orders(fs, fl, DefaultPages,
                          fs_sent_orders, fl_sent_orders, sent_orders)

\* the parsers' state after the call, and the history of what was returned
ParserStep(r) ==
  /\ fs_sent_orders' = r.fs_sent
  /\ fl_sent_orders' = r.fl_sent
  /\ sent_orders' = r.cp_sent
  /\ fs_returned' = BumpAll(fs_returned, IdSeq(r.fs_new))
  /\ fl_returned' = BumpAll(fl_returned, IdSeq(r.fl_new))
  /\ cp_returned' = BumpAll(cp_returned, IdSeq(r.out))
  /\ cp_listings' = BumpAll(cp_listings, ListingSeq(r.out))

\* the parser driven on its own, call after call
CombinedCall ==
  \E r \in { CallResult(fs_site, fl_site) } :
  /\ ParserStep(r)
  /\ call' = [ op |-> "combined", fs_site |-> fs_site, fl_site |-> fl_site,
               fs_before |-> fs_sent_orders, fl_before |-> fl_sent_orders,
               cp_before |-> sent_orders,
               fs_fetch |-> fetch_pages(fs_site, DefaultPages),
               fl_fetch |-> fetch_index(fl_site, FlMaxOrders),
               fs_new |-> r.fs_new, fl_new |-> r.fl_new,
               all_orders |-> r.all_orders, unique |-> r.unique, out |-> r.out ]
  /\ UNCHANGED << site_vars, bot_vars >>
  /\ UNCHANGED unit_vars

ParserNext ==
  \/ FsSiteChanges
  \/ FlSiteChanges
  \/ CombinedCall

SpecParser == Init /\ [][ParserNext]_vars

(***************************************************************************)
(* The parsers on sites that fail: requests that time out, lose the        *)
(* connection, answer another status than 200 or raise otherwise, blocks   *)
(* the extractor gives up on, an index page with more project links than   *)
(* FLParser takes, project pages that cannot be fetched.  The sites are    *)
(* drawn at the start and stay; the calls are the cycles run on them.      *)
(***************************************************************************)
\* pages of freelancespace.ru in a site drawn here
MaxSitePages == 4

\* h2 elements of the fl.ru index page drawn here
MaxIndexItems == 6

FetchPageSet ==
  { FailedPage(how) : how \in FailKinds }
  \cup { OkPage(<< >>),
         OkPage(<< FsBlock("A", Recent) >>),
         OkPage(<< MalformedBlock >>),
         OkPage(<< MalformedBlock, FsBlock("C", P120) >>) }

FetchFsSites == SeqsUpTo(FetchPageSet, MaxSitePages)

SmallFsSites ==
  { << >>,
    << OkPage(<< FsBlock("A", Recent) >>) >>,
    << FailedPage("timeout") >>,
    << OkPage(<< FsBlock("C", P120) >>), FailedPage("http") >> }

FetchFlItems ==
  { FlItem("project", "A", "ok", P60), FlItem("project", "A", "failed", P60),
    FlItem("project", "B", "ok", P60), FlItem("category", "A", "ok", P60) }

FetchFlSites ==
  { FlIndex("failed", << >>) }
  \cup { FlIndex("ok", h2) : h2 \in SeqsUpTo(FetchFlItems, MaxIndexItems) }

SmallFlSites ==
  { FlIndex("ok", << >>),
    FlIndex("failed", << >>),
    FlIndex("ok", << FlItem("project", "B", "ok", P60) >>),
    FlIndex("ok", << FlItem("project", "A", "failed", P60),
                     FlItem("project", "B", "ok", P60) >>) }

\* sites in good order, with one listing each
HealthyFsSite == << OkPage(<< FsBlock("A", Recent) >>) >>

HealthyFlSite == FlIndex("ok", << FlItem("project", "B", "ok", P60) >>)

InitFetch ==
  /\ \/ fs_site \in FetchFsSites /\ fl_site = HealthyFlSite
     \/ fs_site = HealthyFsSite /\ fl_site \in FetchFlSites
     \/ fs_site \in SmallFsSites /\ fl_site \in SmallFlSites
  /\ InitProcess
  /\ normalizer = NoCallOf(EmptyPhrase)
  /\ sorter = NoCallOf(<< >>)
  /\ locator = NoCallOf(<< >>)
  /\ cycle = NoCycle
  /\ extractor = NoCallOf(<< >>)

FetchNext == CombinedCall

SpecFetch == InitFetch /\ [][FetchNext]_vars

(***************************************************************************)
(* One call of CombinedParser.get_new_orders, loop by loop: each iteration *)
(* of the page loop of parse_orders and of the h2 loop of _parse_page is a *)
(* step, with the request it makes; the sites are drawn at the start and   *)
(* may fail as above.  The interpreter runs the call to its end, so the    *)
(* steps of a call that has started are taken (weak fairness); a next call *)
(* may or may not come.                                                    *)
(***************************************************************************)
\* pages of freelancespace.ru in a site drawn here
MaxCyclePages == 3

\* h2 elements of the fl.ru index page drawn here
MaxCycleItems == 3

CycleFsSites == SeqsUpTo(FetchPageSet, MaxCyclePages)

\* an index page with more projects than FLParser takes
FullFlIndex == FlIndex("ok", [ k \in 1..(FlMaxOrders + 1) |-> FlItem("project", "B", "ok", P60) ])

CycleFlSites ==
  { FlIndex("failed", << >>), FullFlIndex }
  \cup { FlIndex("ok", h2) : h2 \in SeqsUpTo(FetchFlItems, MaxCycleItems) }

InitCycle ==
  /\ \/ fs_site \in CycleFsSites /\ fl_site = HealthyFlSite
     \/ fs_site = HealthyFsSite /\ fl_site \in CycleFlSites
     \/ fs_site \in SmallFsSites /\ fl_site \in SmallFlSites
  /\ InitProcess
  /\ normalizer = NoCallOf(EmptyPhrase)
  /\ sorter = NoCallOf(<< >>)
  /\ locator = NoCallOf(<< >>)
  /\ cycle = NoCycle
  /\ extractor = NoCallOf(<< >>)

\* where the call goes after the iteration for page `page`
AfterPage(page, max_pages) == IF page + 1 > max_pages THEN "fs_sort" ELSE "fs_page"

\* a variant: `while page <= max_pages` where the last except clause retries
\* the page it failed on
fs_page_step_retry(c, response, max_pages) ==
  LET break == [ c EXCEPT !.pc = "fs_sort" ]
      continue(all) == [ c EXCEPT !.all_orders = all, !.page = c.page + 1,
                                  !.pc = AfterPage(c.page, max_pages) ]
  IN IF response.status \in { "timeout", "conn" } THEN break
     ELSE IF response.status = "exc" THEN c
     ELSE IF response.status # "ok" THEN break
     ELSE LET orders == parse_html_response(response.blocks)
          IN IF orders = << >> THEN break ELSE continue(c.all_orders \o orders)

\* one iteration of the page loop of parse_orders, on the response of the
\* request for page c.page
fs_page_step(c, response, max_pages) ==
  LET break == [ c EXCEPT !.pc = "fs_sort" ]
      continue(all) == [ c EXCEPT !.all_orders = all, !.page = c.page + 1,
                                  !.pc = AfterPage(c.page, max_pages) ]
  IN IF response.status \in { "timeout", "conn" } THEN break
     ELSE IF response.status = "exc" THEN continue(c.all_orders)
     ELSE IF response.status # "ok" THEN break
     ELSE LET orders == parse_html_response(response.blocks)
          IN IF orders = << >> THEN break ELSE continue(c.all_orders \o orders)

\* where the call goes when the h2 elements `rest` are still to visit
AfterH2(rest) == IF rest = << >> THEN "fl_filter" ELSE "fl_h2"

\* one iteration of the h2 loop of _parse_page, on the first element left
fl_h2_step(c, max_orders) ==
  IF max_orders > 0 /\ Len(c.orders) >= max_orders
  THEN [ c EXCEPT !.pc = "fl_filter" ]                              \* break
  ELSE IF Head(c.h2).link # "project"
       THEN [ c EXCEPT !.h2 = Tail(c.h2), !.pc = AfterH2(Tail(c.h2)) ]
  ELSE [ c EXCEPT !.h2 = Tail(c.h2), !.pc = AfterH2(Tail(c.h2)),
                  !.orders = @ \o extract_order_from_individual_page(Head(c.h2)) ]

\* CombinedParser.get_new_orders is called and calls the FreelanceSpace
\* adapter, which enters its page loop
CycleStart ==
  /\ cycle.pc \in { "idle", "done" }
  /\ cycle' = [ NoCycle EXCEPT !.pc = AfterPage(0, DefaultPages), !.page = 1,
                               !.fs_before = fs_sent_orders,
                               !.fl_before = fl_sent_orders,
                               !.cp_before = sent_orders ]
  /\ UNCHANGED << site_vars, parser_vars, bot_vars, hist_vars,
                  normalizer, sorter, locator, extractor >>

FsRequest ==
  /\ cycle.pc = "fs_page"
  /\ cycle' = fs_page_step(cycle, PageAt(fs_site, cycle.page), DefaultPages)
  /\ UNCHANGED << site_vars, parser_vars, bot_vars, hist_vars,
                  normalizer, sorter, locator, extractor >>

\* after the page loop: _sort_orders_by_time, then the filter of the adapter
FsReturn ==
  /\ cycle.pc = "fs_sort"
  /\ \E r \in { FilterNew(sort_orders_by_time(cycle.all_orders), << >>,
                          fs_sent_orders) } :
       /\ fs_sent_orders' = r.sent
       /\ cycle' = [ cycle EXCEPT !.fs_new = r.new, !.pc = "fl_index" ]
  /\ UNCHANGED << site_vars, fl_sent_orders, sent_orders, bot_vars, hist_vars,
                  normalizer, sorter, locator, extractor >>

\* the FL adapter requests the index page
FlIndexRequest ==
  /\ cycle.pc = "fl_index"
  /\ cycle' = IF fl_site.status # "ok" THEN [ cycle EXCEPT !.pc = "fl_filter" ]
              ELSE [ cycle EXCEPT !.h2 = fl_site.h2, !.pc = AfterH2(fl_site.h2) ]
  /\ UNCHANGED << site_vars, parser_vars, bot_vars, hist_vars,
                  normalizer, sorter, locator, extractor >>

FlBlock ==
  /\ cycle.pc = "fl_h2"
  /\ cycle' = fl_h2_step(cycle, FlMaxOrders)
  /\ UNCHANGED << site_vars, parser_vars, bot_vars, hist_vars,
                  normalizer, sorter, locator, extractor >>

\* after the h2 loop: the filter of the adapter
FlReturn ==
  /\ cycle.pc = "fl_filter"
  /\ \E r \in { FilterNew(cycle.orders, << >>, fl_sent_orders) } :
       /\ fl_sent_orders' = r.sent
       /\ cycle' = [ cycle EXCEPT !.fl_new = r.new, !.pc = "combine" ]
  /\ UNCHANGED << site_vars, fs_sent_orders, sent_orders, bot_vars, hist_vars,
                  normalizer, sorter, locator, extractor >>

\* both adapters have returned: _filter_unique_orders, _sort_orders_by_time
Combine ==
  /\ cycle.pc = "combine"
  /\ \E r \in { filter_unique_orders(cycle.fs_new \o cycle.fl_new, sent_orders) } :
       /\ sent_orders' = r.sent
       /\ cycle' = [ cycle EXCEPT !.out = sort_orders_by_time(r.unique),
                                  !.pc = "done" ]
  /\ UNCHANGED << site_vars, fs_sent_orders, fl_sent_orders, bot_vars, hist_vars,
                  normalizer, sorter, locator, extractor >>

\* the steps of a call that has started
CycleRuns ==
  \/ FsRequest
  \/ FsReturn
  \/ FlIndexRequest
  \/ FlBlock
  \/ FlReturn
  \/ Combine

CycleNext ==
  \/ CycleStart
  \/ CycleRuns

SpecCycle == InitCycle /\ [][CycleNext]_vars /\ WF_vars(CycleRuns)

(***************************************************************************)
(* time_to_minutes called on its own, on one phrase.  A phrase is any      *)
(* text: up to two runs of digits and up to MaxWords words, which are the  *)
(* unit stems of the if/elif chain, capitalised forms of two of them, the  *)
(* sentinel and words that are no unit.  A run of digits is modelled by    *)
(* the number int() makes of it.                                           *)
(***************************************************************************)
MaxWords == 2

NormWords == { "sekund", "minut", "chas", "den", "dnya", "dney", "nedel",
               "mesyats", "Nedavno", "Chas", "Minut", "nazad", "tekst" }

NormNums == { 0, 1, 2, 3, 5, 45, 120 }

\* no digits, one run, or a first run followed by a second
NormRuns ==
  { << >> } \cup { << n >> : n \in NormNums } \cup { << n, 30 >> : n \in NormNums }

NormPhrases ==
  { Phrase(nums, words) : nums \in NormRuns, words \in SeqsUpTo(NormWords, MaxWords) }

IdleUnits ==
  /\ fs_site = << >>
  /\ fl_site = FlIndex("ok", << >>)
  /\ InitProcess

InitNorm ==
  /\ IdleUnits
  /\ normalizer \in { NoCallOf(p) : p \in NormPhrases }
  /\ sorter = NoCallOf(<< >>)
  /\ locator = NoCallOf(<< >>)
  /\ cycle = NoCycle
  /\ extractor = NoCallOf(<< >>)

\* one call of time_to_minutes
Normalize ==
  /\ ~normalizer.done
  /\ normalizer' = [ normalizer EXCEPT !.result = time_to_minutes(normalizer.arg),
                                       !.done = TRUE ]
  /\ UNCHANGED << site_vars, parser_vars, bot_vars, hist_vars, sorter, locator, cycle, extractor >>

NormNext == Normalize

SpecNorm == InitNorm /\ [][NormNext]_vars

(***************************************************************************)
(* _sort_orders_by_time called on its own, on a list of deduplicated       *)
(* records.  The record at place i has the id fl_i; its 'published' is a   *)
(* phrase or a value that is no string, for which the key raises.          *)
(***************************************************************************)
MaxSortLen == 3

SortPublished == { Recent, P60, P120, NotAString }

SortInputs ==
  UNION { { [ i \in 1..n |-> Order(FlOrderId(ToString(i)), "FL.ru", pub[i], "A") ] :
            pub \in [1..n -> SortPublished] } : n \in 0..MaxSortLen }

InitSort ==
  /\ IdleUnits
  /\ normalizer = NoCallOf(EmptyPhrase)
  /\ sorter \in { NoCallOf(orders) : orders \in SortInputs }
  /\ locator = NoCallOf(<< >>)
  /\ cycle = NoCycle
  /\ extractor = NoCallOf(<< >>)

\* one call of _sort_orders_by_time
Sort ==
  /\ ~sorter.done
  /\ sorter' = [ sorter EXCEPT !.result = sort_orders_by_time(sorter.arg),
                               !.done = TRUE ]
  /\ UNCHANGED << site_vars, parser_vars, bot_vars, hist_vars, normalizer, locator,
                  cycle, extractor >>

SortNext == Sort

SpecSort == InitSort /\ [][SortNext]_vars

(***************************************************************************)
(* The search for order blocks in _parse_html_response, called on its own  *)
(* on a parsed document.  A document is the sequence of its elements in    *)
(* document order; element 1 is the BeautifulSoup object and every other   *)
(* element names its parent.  An element keeps what the search reads: its  *)
(* tag and classes, the text leaves directly in it that hold               *)
(* 'Откликнуться' (cues), the `a` elements directly in it whose href holds *)
(* 'order?id=' (links), and whether its own text has a price, time or      *)
(* order word and more than 50 characters (body).                          *)
(***************************************************************************)
Element(tag, classes, cues, links, body) ==
  [ tag |-> tag, classes |-> classes, cues |-> cues, links |-> links, body |-> body ]

\* an element in its place in the document
DocNode(parent, element) == [ parent |-> parent ] @@ element

\* BeautifulSoup(html, 'html.parser')
Soup == DocNode(0, Element("[document]", {}, 0, 0, FALSE))

\* j is i or lies below i
RECURSIVE InSubtree(_, _, _)
InSubtree(doc, i, j) ==
  IF j = i THEN TRUE
  ELSE IF j = 0 THEN FALSE
  ELSE InSubtree(doc, i, doc[j].parent)

Subtree(doc, i) == { j \in DOMAIN doc : InSubtree(doc, i, j) }

\* _is_order_block: every test reads element.get_text() or
\* element.find_all('a'), which cover the descendants of the element
is_order_block(doc, i) ==
  LET has_action_button == \E j \in Subtree(doc, i) : doc[j].cues > 0
      has_order_link    == \E j \in Subtree(doc, i) : doc[j].links > 0
      is_described      == \E j \in Subtree(doc, i) : doc[j].body
  IN (has_action_button \/ has_order_link) /\ is_described

\* Tag.__eq__: two elements are equal when name, attributes and contents are
RECURSIVE Markup(_, _)
Markup(doc, i) ==
  LET kids == SelectSeq([ j \in DOMAIN doc |-> j ], LAMBDA j : doc[j].parent = i)
  IN [ element |-> [ doc[i] EXCEPT !.parent = 0 ],
       contents |-> [ k \in DOMAIN kids |-> Markup(doc, kids[k]) ] ]

\* `block in order_blocks`: list membership compares with ==
InBlocks(doc, i, blocks) ==
  \E k \in DOMAIN blocks : Markup(doc, blocks[k]) = Markup(doc, i)

\* the element holding each found text leaf (each found link), in document order
RECURSIVE Holders(_, _, _)
Holders(doc, field, i) ==
  IF i > Len(doc) THEN << >>
  ELSE [ k \in 1..(IF field = "cues" THEN doc[i].cues ELSE doc[i].links) |-> i ]
         \o Holders(doc, field, i + 1)

ButtonDepth == 15

LinkDepth == 10

\* method 1: the first ancestor that is an order block is appended, with no
\* look at the list
RECURSIVE climb_from_button(_, _, _)
climb_from_button(doc, parent, depth) ==
  IF parent = 0 \/ depth >= ButtonDepth THEN 0
  ELSE IF is_order_block(doc, parent) THEN parent
  ELSE climb_from_button(doc, doc[parent].parent, depth + 1)

RECURSIVE by_buttons(_, _, _)
by_buttons(doc, buttons, order_blocks) ==
  IF buttons = << >> THEN order_blocks
  ELSE LET found == climb_from_button(doc, Head(buttons), 0)
       IN by_buttons(doc, Tail(buttons),
                     IF found = 0 THEN order_blocks ELSE Append(order_blocks, found))

css_selectors ==
  << "div.border.border-gray-300", "div[class*=border]", "div[class*=shadow]",
     "div[class*=rounded]" >>

\* soup.select(selector) finds this element
Selects(selector, node) ==
  /\ node.tag = "div"
  /\ CASE selector = "div.border.border-gray-300" ->
            { "border", "border-gray-300" } \subseteq node.classes
       [] selector = "div[class*=border]" ->
            node.classes \cap { "border", "border-gray-300" } # {}
       [] selector = "div[class*=shadow]" -> "shadow" \in node.classes
       [] selector = "div[class*=rounded]" -> "rounded" \in node.classes

\* the elements each selector finds, selector after selector
RECURSIVE Selected(_, _)
Selected(doc, k) ==
  IF k > Len(css_selectors) THEN << >>
  ELSE SelectSeq([ j \in DOMAIN doc |-> j ],
                 LAMBDA j : Selects(css_selectors[k], doc[j]))
         \o Selected(doc, k + 1)

\* method 2
RECURSIVE by_selectors(_, _, _)
by_selectors(doc, blocks, order_blocks) ==
  IF blocks = << >> THEN order_blocks
  ELSE by_selectors(doc, Tail(blocks),
         IF is_order_block(doc, Head(blocks)) /\ ~InBlocks(doc, Head(blocks), order_blocks)
         THEN Append(order_blocks, Head(blocks))
         ELSE order_blocks)

\* method 3: the climb goes on past an order block that is in the list
RECURSIVE climb_from_link(_, _, _, _)
climb_from_link(doc, parent, depth, order_blocks) ==
  IF parent = 0 \/ depth >= LinkDepth THEN 0
  ELSE IF is_order_block(doc, parent) /\ ~InBlocks(doc, parent, order_blocks) THEN parent
  ELSE climb_from_link(doc, doc[parent].parent, depth + 1, order_blocks)

RECURSIVE by_links(_, _, _)
by_links(doc, order_links, order_blocks) ==
  IF order_links = << >> THEN order_blocks
  ELSE LET found == climb_from_link(doc, Head(order_links), 0, order_blocks)
       IN by_links(doc, Tail(order_links),
                   IF found = 0 THEN order_blocks ELSE Append(order_blocks, found))

\* order_blocks as the extraction loop receives it
find_order_blocks(doc) ==
  by_links(doc, Holders(doc, "links", 1),
    by_selectors(doc, Selected(doc, 1),
      by_buttons(doc, Holders(doc, "cues", 1), << >>)))

MaxNodes == 4

\* a wrapper, a button holding the cue, a bordered card, a bordered card
\* holding the cue in its own text, a rounded card with an order link, and an
\* unstyled block with the cue and an order link
Elements ==
  { Element("div", {}, 0, 0, FALSE),
    Element("button", {}, 1, 0, FALSE),
    Element("div", { "border", "border-gray-300" }, 0, 0, TRUE),
    Element("div", { "border", "border-gray-300" }, 1, 0, TRUE),
    Element("div", { "rounded" }, 0, 1, TRUE),
    Element("div", {}, 1, 1, TRUE) }

\* a is j or above j, by the parents p
RECURSIVE OnPath(_, _, _)
OnPath(p, a, j) ==
  IF a = j THEN TRUE
  ELSE IF j <= 1 THEN FALSE
  ELSE OnPath(p, a, p[j])

\* parents that make 1..n the document order of a tree rooted at 1
Shapes(n) ==
  { p \in [2..n -> 1..n] :
      \A i \in 2..n : p[i] < i /\ OnPath(p, p[i], i - 1) }

\* the document with these parents and elements below the soup
Document(n, p, e) == [ i \in 1..n |-> IF i = 1 THEN Soup ELSE DocNode(p[i], e[i]) ]

InitLocator ==
  /\ IdleUnits
  /\ normalizer = NoCallOf(EmptyPhrase)
  /\ sorter = NoCallOf(<< >>)
  /\ \E n \in 1..MaxNodes : \E p \in Shapes(n), e \in [2..n -> Elements] :
       locator = NoCallOf(Document(n, p, e))
  /\ cycle = NoCycle
  /\ extractor = NoCallOf(<< >>)

\* the search of one document
Locate ==
  /\ ~locator.done
  /\ locator' = [ locator EXCEPT !.result = find_order_blocks(locator.arg),
                                 !.done = TRUE ]
  /\ UNCHANGED << site_vars, parser_vars, bot_vars, hist_vars, normalizer, sorter,
                  cycle, extractor >>

LocatorNext == Locate

SpecLocator == InitLocator /\ [][LocatorNext]_vars

(***************************************************************************)
(* _parse_html_response on a whole document: the block search, then        *)
(* _extract_order_data on each block found.  Here an order link is the     *)
(* link of an h2 title, and the element holding it names the listing, the  *)
(* value after 'order?id=' in the href and, when its own text has one, the *)
(* recency phrase of the listing.                                          *)
(***************************************************************************)
Listed(element, listing, param, published) ==
  element @@ [ listing |-> listing, param |-> param, published |-> published ]

\* the recency phrase in the own text of an element, if any
PublishedIn(node) ==
  IF "published" \in DOMAIN node THEN node.published ELSE EmptyPhrase

\* block.find(...): the first of the elements found, in document order; 0
\* when there is none
FirstIn(found) ==
  IF found = {} THEN 0 ELSE CHOOSE j \in found : \A k \in found : j <= k

\* the block as _extract_order_data reads it: the first h2 title link in it
\* and the first recency text in it ("Недавно" when it has none)
block_read(doc, i) ==
  LET title_element == FirstIn({ j \in Subtree(doc, i) : doc[j].links > 0 })
      timed == FirstIn({ j \in Subtree(doc, i) : PublishedIn(doc[j]) # EmptyPhrase })
  IN IF title_element = 0 THEN MalformedBlock
     ELSE [ kind |-> "order", listing |-> doc[title_element].listing,
            param |-> doc[title_element].param,
            published |-> IF timed = 0 THEN Recent ELSE doc[timed].published ]

\* a 200 response whose body parses to this document: the blocks the search
\* finds in it, in the order of order_blocks
DocPage(doc) ==
  LET order_blocks == find_order_blocks(doc)
  IN [ status |-> "ok",
       blocks |-> [ k \in DOMAIN order_blocks |-> block_read(doc, order_blocks[k]) ],
       doc |-> doc ]

\* elements below the soup of a page
MaxPageNodes == 3

\* a wrapper, a button, the cards of listings A and C (action text, title
\* link, price and time), and a card with a title link and nothing else
PageElements ==
  { Element("div", {}, 0, 0, FALSE),
    Element("button", {}, 1, 0, FALSE),
    Listed(Element("div", { "border", "border-gray-300" }, 1, 1, TRUE), "A", "7", P120),
    Listed(Element("div", { "border", "border-gray-300" }, 1, 1, TRUE), "C", "fl_2", P60),
    Listed(Element("div", { "border", "border-gray-300" }, 0, 1, FALSE), "B", "fl_1",
           EmptyPhrase) }

PageFlItems == { FlItem("project", l, "ok", P60) : l \in FlListings }

\* the index page of fl.ru with one project link or two, also the same twice
PageFlSites ==
  { FlIndex("ok", << x >>) : x \in PageFlItems }
  \cup { FlIndex("ok", << x, y >>) : x, y \in PageFlItems }

\* freelancespace.ru serves the document as page 1, or as pages 1 and 2,
\* and fl.ru has no project; or freelancespace.ru has one page of one order
\* and fl.ru has projects
InitPage ==
  /\ \/ /\ \E n \in 1..(MaxPageNodes + 1) :
            \E p \in Shapes(n), e \in [2..n -> PageElements], twice \in BOOLEAN :
              LET page == DocPage(Document(n, p, e))
              IN fs_site = IF twice THEN << page, page >> ELSE << page >>
        /\ fl_site = FlIndex("ok", << >>)
     \/ /\ fs_site = HealthyFsSite
        /\ fl_site \in PageFlSites
  /\ InitProcess
  /\ normalizer = NoCallOf(EmptyPhrase)
  /\ sorter = NoCallOf(<< >>)
  /\ locator = NoCallOf(<< >>)
  /\ cycle = NoCycle
  /\ extractor = NoCallOf(<< >>)

PageNext == CombinedCall

SpecPage == InitPage /\ [][PageNext]_vars

(***************************************************************************)
(* The author of an order, as _extract_order_data reads it from the        *)
(* participant block (author_container).  A text is the sequence of its    *)
(* characters; a span is given by its classes and its get_text(strip=True).*)
(***************************************************************************)
\* characters in a name drawn here
MaxNameLen == 4

\* "Не указан"
NotSpecified == << "Ne ukazan" >>

\* len(author_text) < 50
AuthorLimit == 50

Span(classes, text) == [ classes |-> classes, text |-> text ]

\* '...' in text
HasEllipsis(text) ==
  \E i \in 1..(Len(text) - 2) : SubSeq(text, i, i + 2) = << ".", ".", "." >>

\* text.endswith(suffix)
EndsWith(text, suffix) ==
  /\ Len(suffix) <= Len(text)
  /\ SubSeq(text, Len(text) - Len(suffix) + 1, Len(text)) = suffix

\* the loop over find_all('span', class_='hidden')
RECURSIVE author_from_hidden(_, _)
author_from_hidden(spans, title) ==
  IF spans = << >> THEN NotSpecified
  ELSE LET span == Head(spans)
           author_text == span.text
       IN IF /\ "hidden" \in span.classes
             /\ "sm:inline" \in span.classes
             /\ Len(author_text) < AuthorLimit
             /\ author_text # title
             /\ ~HasEllipsis(author_text)
          THEN author_text
          ELSE author_from_hidden(Tail(spans), title)

\* the loop over find_all('span', class_=['text-gray-800', 'font-semibold'])
RECURSIVE author_from_semibold(_, _)
author_from_semibold(spans, title) ==
  IF spans = << >> THEN NotSpecified
  ELSE LET span == Head(spans)
           author_text == span.text
           half_len == Len(author_text) \div 2
       IN IF /\ span.classes \cap { "text-gray-800", "font-semibold" } # { }
             /\ "font-semibold" \in span.classes
             /\ Len(author_text) < AuthorLimit
             /\ author_text # title
             /\ ~HasEllipsis(author_text)
             /\ ~EndsWith(author_text, SubSeq(author_text, 1, half_len))
          THEN IF Len(author_text) > 2
               THEN IF SubSeq(author_text, 1, half_len)
                         = SubSeq(author_text, half_len + 1, Len(author_text))
                    THEN SubSeq(author_text, 1, half_len)
                    ELSE author_text
               ELSE NotSpecified
          ELSE author_from_semibold(Tail(spans), title)

\* step 2 of _extract_order_data, on the spans of author_container
extract_author(spans, title) ==
  LET author == author_from_hidden(spans, title)
  IN IF author = NotSpecified THEN author_from_semibold(spans, title) ELSE author

\* the texts of up to MaxNameLen characters, and one with an ellipsis
NameTexts ==
  SeqsUpTo({ "a", "n" }, MaxNameLen) \cup { << "a", ".", ".", "." >> }

SpanClasses ==
  { { "hidden", "sm:inline" }, { "sm:hidden" }, { "font-semibold" },
    { "text-gray-800" } }

\* the title of the order whose author is read
AuthorTitle == << "n", "a" >>

InitAuthor ==
  /\ IdleUnits
  /\ normalizer = NoCallOf(EmptyPhrase)
  /\ sorter = NoCallOf(<< >>)
  /\ locator = NoCallOf(<< >>)
  /\ cycle = NoCycle
  /\ \E c1, c2 \in SpanClasses, t1, t2 \in NameTexts, two \in BOOLEAN :
       extractor = NoCallOf([ title |-> AuthorTitle,
                              spans |-> IF two THEN << Span(c1, t1), Span(c2, t2) >>
                                        ELSE << Span(c1, t1) >> ])

ExtractAuthor ==
  /\ ~extractor.done
  /\ extractor' = [ extractor EXCEPT
                      !.result = extract_author(extractor.arg.spans, extractor.arg.title),
                      !.done = TRUE ]
  /\ UNCHANGED << site_vars, parser_vars, bot_vars, hist_vars, normalizer, sorter,
                  locator, cycle >>

AuthorNext == ExtractAuthor

SpecAuthor == InitAuthor /\ [][AuthorNext]_vars

(***************************************************************************)
(* The price of an FL.ru project, as _parse_individual_page reads it from  *)
(* page_text.  The text is a sequence of tokens, a newline being one of    *)
(* them; two tokens that are no newline have one space between them, and   *)
(* there is no other white space.                                          *)
(***************************************************************************)
\* tokens in a text drawn here
MaxTextLen == 4

\* "По договорённости", the value `price` starts with
Negotiable == << "Po dogovorennosti" >>

Newline == "\n"

\* the label, the phrase 'по договорённости' as a page spells it, an amount,
\* the currency, a newline, and a word that is none of them
PriceTokens == { "Byudzhet:", "po dogovorennosti", "5000", "rub", Newline, "srochno" }

IsDigits(token) == token = "5000"

\* the first position from `i` on that holds no newline; 0 when there is none
RECURSIVE SkipNewlines(_, _)
SkipNewlines(text, i) ==
  IF i > Len(text) THEN 0
  ELSE IF text[i] = Newline THEN SkipNewlines(text, i + 1)
  ELSE i

\* the last position of the line that position `i` is on
RECURSIVE LineEnd(_, _)
LineEnd(text, i) ==
  IF i + 1 > Len(text) \/ text[i + 1] = Newline THEN i ELSE LineEnd(text, i + 1)

\* re.search(r'Бюджет:\s*([^\n\r]+)', page_text, re.IGNORECASE): group(1)
\* stripped, << >> for no match.  \s* takes the newlines after the label and
\* the group is the rest of the line that follows.
budget_label_match(text) ==
  LET starts == { i \in DOMAIN text :
                    text[i] = "Byudzhet:" /\ SkipNewlines(text, i + 1) # 0 }
  IN IF starts = { } THEN << >>
     ELSE LET i == CHOOSE k \in starts : \A l \in starts : k <= l
              j == SkipNewlines(text, i + 1)
          IN SubSeq(text, j, LineEnd(text, j))

\* re.search(r'по договор[её]нности', page_text, re.IGNORECASE)
negotiable_match(text) == \E i \in DOMAIN text : text[i] = "po dogovorennosti"

\* the position of 'руб' when only digits and white space lie between
\* position `i` and it; 0 otherwise
RECURSIVE RubAfter(_, _)
RubAfter(text, i) ==
  IF i > Len(text) THEN 0
  ELSE IF text[i] = "rub" THEN i
  ELSE IF IsDigits(text[i]) \/ text[i] = Newline THEN RubAfter(text, i + 1)
  ELSE 0

\* the text up to position `j`, without the newlines at its end
RECURSIVE StripEnd(_, _, _)
StripEnd(text, i, j) ==
  IF j < i THEN << >>
  ELSE IF text[j] = Newline THEN StripEnd(text, i, j - 1)
  ELSE SubSeq(text, i, j)

\* re.search(r'(\d+[\s\d,]*)\s*руб', page_text, re.IGNORECASE): group(1)
\* stripped, << >> for no match
amount_match(text) ==
  LET starts == { i \in DOMAIN text : IsDigits(text[i]) /\ RubAfter(text, i + 1) # 0 }
  IN IF starts = { } THEN << >>
     ELSE LET i == CHOOSE k \in starts : \A l \in starts : k <= l
          IN StripEnd(text, i, RubAfter(text, i + 1) - 1)

\* the loop over budget_patterns: the first pattern that matches decides.
\* The second pattern is the first in lower case and the fifth begins with
\* the fourth, so under re.IGNORECASE they match nothing the others do not.
extract_price(text) ==
  IF budget_label_match(text) # << >> THEN budget_label_match(text)
  ELSE IF negotiable_match(text) THEN Negotiable
  ELSE IF amount_match(text) # << >> THEN amount_match(text)
  ELSE Negotiable

InitPrice ==
  /\ IdleUnits
  /\ normalizer = NoCallOf(EmptyPhrase)
  /\ sorter = NoCallOf(<< >>)
  /\ locator = NoCallOf(<< >>)
  /\ cycle = NoCycle
  /\ \E text \in SeqsUpTo(PriceTokens, MaxTextLen) : extractor = NoCallOf(text)

ExtractPrice ==
  /\ ~extractor.done
  /\ extractor' = [ extractor EXCEPT !.result = extract_price(extractor.arg),
                                     !.done = TRUE ]
  /\ UNCHANGED << site_vars, parser_vars, bot_vars, hist_vars, normalizer, sorter,
                  locator, cycle >>

PriceNext == ExtractPrice

SpecPrice == InitPrice /\ [][PriceNext]_vars

(***************************************************************************)
(* FreelanceParserBotCombined: the asyncio tasks.  A step runs a task from *)
(* one await that suspends it to the next; CombinedParser.get_new_orders   *)
(* is a blocking call (requests), so a whole parse is inside one step.     *)
(* The Application handles one update at a time (it awaits a handler       *)
(* before it takes the next update); the periodic_parse tasks run beside   *)
(* it.                                                                     *)
(***************************************************************************)
\* the sites the bot-level specification ranges over; there a fetch draws
\* what the site serves at that moment, and fs_site, fl_site stay as they
\* are.  Each listing keeps one recency phrase.
BotFsPageSet ==
  { OkPage(<< FsBlock("A", Recent) >>), OkPage(<< FsBlock("C", P120) >>) }

BotFlItems == { FlItem("project", l, "ok", P60) : l \in FlListings }

\* freelancespace.ru with no order, or with one page of one order
BotFsWorlds == { << >> } \cup { << p >> : p \in BotFsPageSet }

\* the index page of fl.ru with no project link, or with one
BotFlWorlds ==
  { FlIndex("ok", << >>) } \cup { FlIndex("ok", << x >>) : x \in BotFlItems }

FreeSlots == { i \in 1..MaxLoops : loops[i].pc = "none" }

\* schedule_parsing: asyncio.create_task(periodic_parse())
schedule_parsing(ls) ==
  LET i == CHOOSE j \in 1..MaxLoops : ls[j].pc = "none"
  IN [ ls EXCEPT ![i] = Idle("created") ]

\* run(), to its first await: the timer task is created before polling starts
Run ==
  /\ app = "constructed"
  /\ app' = "starting"
  /\ loops' = IF is_parsing_active THEN schedule_parsing(loops) ELSE loops
  /\ UNCHANGED << site_vars, parser_vars, hist_vars, is_parsing_active,
                  handler, notified >>
  /\ UNCHANGED unit_vars

\* initialize(), start(), start_polling() done: updates are handled from now on
StartPolling ==
  /\ app = "starting"
  /\ app' = "polling"
  /\ UNCHANGED << site_vars, parser_vars, hist_vars, is_parsing_active,
                  loops, handler, notified >>
  /\ UNCHANGED unit_vars

\* parse_and_notify from its start to its first await: the parse, and, with
\* new orders, the call of send_order_notification for the first of them.
\* `after` is where the task is when parse_and_notify returns at once.
StartCycle(r, after) ==
  IF r.out = << >> THEN Idle(after)
  ELSE Task("sending", r.out, 1, << r.out[1].id >>, FALSE, FALSE,
            handler.pc = "sending" \/ \E j \in 1..MaxLoops : loops[j].pc = "sending")

\* ids handed to the notifier by a task that moves from t to u
Invoked(t, u) ==
  IF u.pc # "sending" THEN << >>
  ELSE IF t.pc # "sending" THEN u.log
  ELSE SubSeq(u.log, Len(t.log) + 1, Len(u.log))

\* a variant: the for loop ends at the first delivery that fails
DeliveryReturnsBreakOnFailure(task, ok, after) ==
  IF ok /\ task.idx < Len(task.out)
  THEN Task("sending", task.out, task.idx + 1,
            Append(task.log, task.out[task.idx + 1].id),
            task.failed, task.toggled, task.overlapped)
  ELSE Idle(after)

\* a variant: the for loop tests is_parsing_active before each delivery
DeliveryReturnsWhileActive(task, ok, after) ==
  IF is_parsing_active /\ task.idx < Len(task.out)
  THEN Task("sending", task.out, task.idx + 1,
            Append(task.log, task.out[task.idx + 1].id),
            task.failed \/ ~ok, task.toggled, task.overlapped)
  ELSE Idle(after)

\* a variant: an order whose delivery failed is handed to the notifier again
DeliveryReturnsRetry(task, ok, after) ==
  IF ~ok
  THEN Task("sending", task.out, task.idx,
            Append(task.log, task.out[task.idx].id),
            TRUE, task.toggled, task.overlapped)
  ELSE IF task.idx < Len(task.out)
  THEN Task("sending", task.out, task.idx + 1,
            Append(task.log, task.out[task.idx + 1].id),
            task.failed, task.toggled, task.overlapped)
  ELSE Idle(after)

\* parse_and_notify resumed when send_order_notification returns (the send
\* went through, or failed and was logged): the next order, or the end of
\* the for loop, where parse_and_notify returns and the task goes on to `after`
DeliveryReturns(task, ok, after) ==
  IF task.idx < Len(task.out)
  THEN Task("sending", task.out, task.idx + 1,
            Append(task.log, task.out[task.idx + 1].id),
            task.failed \/ ~ok, task.toggled, task.overlapped)
  ELSE Idle(after)

\* a variant: `while True`, the loop does not test is_parsing_active
LoopIterateAlways(i) ==
  /\ app # "constructed"
  /\ loops[i].pc \in { "created", "sleep" }
  /\ \E fs \in BotFsWorlds, fl \in BotFlWorlds :
     \E r \in { CallResult(fs, fl) } :
       LET t == StartCycle(r, "sleep")
       IN /\ ParserStep(r)
          /\ loops' = [ loops EXCEPT ![i] = t ]
          /\ notified' = BumpAll(notified, Invoked(loops[i], t))
  /\ UNCHANGED << site_vars, is_parsing_active, app, handler, call >>
  /\ UNCHANGED unit_vars

\* periodic_parse: the task starts, or wakes from asyncio.sleep, and tests
\* `while self.is_parsing_active`; off: the task ends; on: one cycle starts
LoopIterate(i) ==
  /\ app # "constructed"
  /\ loops[i].pc \in { "created", "sleep" }
  /\ IF is_parsing_active
     THEN \E fs \in BotFsWorlds, fl \in BotFlWorlds :
          \E r \in { CallResult(fs, fl) } :
          LET t == StartCycle(r, "sleep")
          IN /\ ParserStep(r)
             /\ loops' = [ loops EXCEPT ![i] = t ]
             /\ notified' = BumpAll(notified, Invoked(loops[i], t))
     ELSE /\ loops' = [ loops EXCEPT ![i] = Idle("none") ]
          /\ UNCHANGED << parser_vars, notified,
                          fs_returned, fl_returned, cp_returned, cp_listings >>
  /\ UNCHANGED << site_vars, is_parsing_active, app, handler, call >>
  /\ UNCHANGED unit_vars

\* a delivery of a timer cycle returns
LoopDelivery(i) ==
  /\ loops[i].pc = "sending"
  /\ \E ok \in BOOLEAN :
       LET t == DeliveryReturns(loops[i], ok, "sleep")
       IN /\ loops' = [ loops EXCEPT ![i] = t ]
          /\ notified' = BumpAll(notified, Invoked(loops[i], t))
  /\ UNCHANGED << site_vars, parser_vars, hist_vars, is_parsing_active, app,
                  handler >>
  /\ UNCHANGED unit_vars

\* /parse arrives: manual_parse_command, to the await of its first reply
ParseCommand ==
  /\ app = "polling"
  /\ handler.pc = "idle"
  /\ handler' = Idle("parse_ack")
  /\ UNCHANGED << site_vars, parser_vars, hist_vars, is_parsing_active, app,
                  loops, notified >>
  /\ UNCHANGED unit_vars

\* the first reply returns: parse_and_notify starts; a reply that raises
\* ends the handler
ManualStart ==
  /\ handler.pc = "parse_ack"
  /\ \E ok \in BOOLEAN :
       IF ok
       THEN \E fs \in BotFsWorlds, fl \in BotFlWorlds :
            \E r \in { CallResult(fs, fl) } :
            LET t == StartCycle(r, "parse_reply")
            IN /\ ParserStep(r)
               /\ handler' = t
               /\ notified' = BumpAll(notified, Invoked(handler, t))
       ELSE /\ handler' = Idle("idle")
            /\ UNCHANGED << parser_vars, notified,
                            fs_returned, fl_returned, cp_returned, cp_listings >>
  /\ UNCHANGED << site_vars, is_parsing_active, app, loops, call >>
  /\ UNCHANGED unit_vars

\* a delivery of a manual cycle returns
ManualDelivery ==
  /\ handler.pc = "sending"
  /\ \E ok \in BOOLEAN :
       LET t == DeliveryReturns(handler, ok, "parse_reply")
       IN /\ handler' = t
          /\ notified' = BumpAll(notified, Invoked(handler, t))
  /\ UNCHANGED << site_vars, parser_vars, hist_vars, is_parsing_active, app,
                  loops >>
  /\ UNCHANGED unit_vars

\* the reply with the result returns: manual_parse_command is over
ManualDone ==
  /\ handler.pc = "parse_reply"
  /\ handler' = Idle("idle")
  /\ UNCHANGED << site_vars, parser_vars, hist_vars, is_parsing_active, app,
                  loops, notified >>
  /\ UNCHANGED unit_vars

\* history: a cycle in flight with orders still to deliver notes the toggle
NoteToggle(task) ==
  IF task.pc = "sending" /\ task.idx < Len(task.out)
  THEN [ task EXCEPT !.toggled = TRUE ] ELSE task

\* /toggle arrives: toggle_parsing_command flips the flag and awaits its reply
ToggleCommand ==
  /\ app = "polling"
  /\ handler.pc = "idle"
  /\ is_parsing_active \/ FreeSlots # { }
  /\ is_parsing_active' = ~is_parsing_active
  /\ handler' = Idle("toggle_reply")
  /\ loops' = [ i \in 1..MaxLoops |-> NoteToggle(loops[i]) ]
  /\ UNCHANGED << site_vars, parser_vars, hist_vars, app, notified >>
  /\ UNCHANGED unit_vars

\* the reply returns: with the flag on, schedule_parsing(); a reply that
\* raises ends the handler before it
ToggleReplied ==
  /\ handler.pc = "toggle_reply"
  /\ \E ok \in BOOLEAN :
       loops' = IF ok /\ is_parsing_active THEN schedule_parsing(loops) ELSE loops
  /\ handler' = Idle("idle")
  /\ UNCHANGED << site_vars, parser_vars, hist_vars, is_parsing_active, app,
                  notified >>
  /\ UNCHANGED unit_vars

Next ==
  \/ Run
  \/ StartPolling
  \/ \E i \in 1..MaxLoops : LoopIterate(i)
  \/ \E i \in 1..MaxLoops : LoopDelivery(i)
  \/ ParseCommand
  \/ ManualStart
  \/ ManualDelivery
  \/ ManualDone
  \/ ToggleCommand
  \/ ToggleReplied

Spec == Init /\ [][Next]_vars

(***************************************************************************)
(* Properties of the parsers, checked under SpecParser.  While `call` is   *)
(* a call, the sites are as the call fetched them and the sent_orders sets *)
(* are as the call left them.                                              *)
(***************************************************************************)
CallMade == call.op = "combined"

\* what the adapters extracted in the last call, before their filters
FsExtracted == parse_orders(call.fs_site, DefaultPages)

FlExtracted == parse_page(call.fl_site, FlMaxOrders)

NoDuplicateIds(orders) ==
  \A i, j \in DOMAIN orders : orders[i].id = orders[j].id => i = j

\* the first record of `orders` with this id
FirstWithId(orders, id) ==
  orders[CHOOSE i \in DOMAIN orders :
           /\ orders[i].id = id
           /\ \A j \in 1..(i - 1) : orders[j].id # id]

\* position of a record in a list that holds it
IndexOf(orders, order) == CHOOSE i \in DOMAIN orders : orders[i] = order

\* C1: an id that an adapter has returned is in that adapter's sent_orders,
\* and no later get_new_orders call of that adapter returns it again: its
\* count of returns stays as it is in every step, whatever the sites serve.
ReturnedIdNeverReturnedAgain ==
  /\ [](\A i \in AllIds : /\ fs_returned[i] > 0 => i \in fs_sent_orders
                          /\ fl_returned[i] > 0 => i \in fl_sent_orders)
  /\ [][\A i \in AllIds :
          /\ fs_returned[i] > 0 => fs_returned'[i] = fs_returned[i]
          /\ fl_returned[i] > 0 => fl_returned'[i] = fl_returned[i]]_vars

\* each adapter has just been called on a site that serves an id the adapter
\* returned in an earlier call
ReturnedIdFetchedAgain ==
  /\ CallMade
  /\ \E i \in call.fs_before \cap Ids(FsExtracted) : fs_returned[i] = 1
  /\ \E i \in call.fl_before \cap Ids(FlExtracted) : fl_returned[i] = 1

\* C2: a get_new_orders call of an adapter returns records it extracted, one
\* for each extracted id that was not in sent_orders at the start and none
\* for any other id; sent_orders is then its old value with the returned ids;
\* a call that follows a call on unchanged sites returns nothing.
AdapterReturnsExactlyTheNewIds ==
  /\ [](CallMade =>
          /\ Ids(call.fs_new) = Ids(FsExtracted) \ call.fs_before
          /\ Range(call.fs_new) \subseteq Range(FsExtracted)
          /\ NoDuplicateIds(call.fs_new)
          /\ fs_sent_orders = call.fs_before \cup Ids(call.fs_new)
          /\ Ids(call.fl_new) = Ids(FlExtracted) \ call.fl_before
          /\ Range(call.fl_new) \subseteq Range(FlExtracted)
          /\ NoDuplicateIds(call.fl_new)
          /\ fl_sent_orders = call.fl_before \cup Ids(call.fl_new))
  /\ [][CallMade /\ call'.op = "combined" =>
          call'.fs_new = << >> /\ call'.fl_new = << >>]_vars

\* a call in which each adapter extracted an id it had sent and one it had not
AdapterFilteredSomeIds ==
  /\ CallMade
  /\ call.fs_new # << >>
  /\ call.fl_new # << >>
  /\ Ids(FsExtracted) \cap call.fs_before # { }
  /\ call.fl_before # { }

\* C3: the aggregator works on the FreelanceSpace records followed by the FL
\* records; its output has no two records with one id, and each record of
\* the output is the first record with its id in that concatenation.
AggregatorKeepsFirstOccurrence ==
  CallMade =>
    /\ call.all_orders = call.fs_new \o call.fl_new
    /\ NoDuplicateIds(call.unique)
    /\ NoDuplicateIds(call.out)
    /\ \A k \in DOMAIN call.unique :
         call.unique[k] = FirstWithId(call.all_orders, call.unique[k].id)
    /\ \A k \in DOMAIN call.out :
         call.out[k] = FirstWithId(call.all_orders, call.out[k].id)

\* both adapters returned a record with the same id in one call, and the
\* output holds the FreelanceSpace one
AggregatorDroppedLaterRecord ==
  /\ CallMade
  /\ \E i \in DOMAIN call.fs_new, j \in DOMAIN call.fl_new :
       /\ call.fs_new[i].id = call.fl_new[j].id
       /\ call.fs_new[i] \in Range(call.out)
       /\ call.fl_new[j] \notin Range(call.out)

\* C4: over the life of the process the aggregator outputs at most one
\* record for a listing, also for a listing that both sites expose.
AtMostOneRecordPerListing == \A l \in Listings : cp_listings[l] <= 1

\* C5: the output of the aggregator holds the deduplicated records, each
\* once, with recency ordinals that never increase along the list, and
\* records of equal ordinal in the order they have in the deduplicated list.
AggregatorOutputStableDescending ==
  CallMade =>
    /\ Len(call.out) = Len(call.unique)
    /\ Range(call.out) = Range(call.unique)
    /\ \A k, l \in DOMAIN call.out :
         k < l =>
           /\ SortKey(call.out[k]) >= SortKey(call.out[l])
           /\ SortKey(call.out[k]) = SortKey(call.out[l]) =>
                IndexOf(call.unique, call.out[k]) < IndexOf(call.unique, call.out[l])

\* ordinals [120, 0, 60] arrived in that order and left as [120, 60, 0]
AggregatorSorted120_0_60 ==
  /\ CallMade
  /\ Len(call.unique) = 3
  /\ [ k \in 1..3 |-> SortKey(call.unique[k]) ] = << 120, 0, 60 >>
  /\ [ k \in 1..3 |-> SortKey(call.out[k]) ] = << 120, 60, 0 >>

(***************************************************************************)
(* Properties of the bot, checked under Spec.                              *)
(***************************************************************************)
\* the tasks that run cycles: 0 is the update handler, 1..MaxLoops the
\* periodic_parse tasks
Cycles == 0..MaxLoops

TaskAt(h, ls, i) == IF i = 0 THEN h ELSE ls[i]

InFlight(t) == t.pc = "sending"

\* the ids of the first n orders of a cycle, in the order of the output
Delivered(t, n) == IdSeq(SubSeq(t.out, 1, n))

\* task t goes on to u within its cycle: nothing new is handed to the
\* notifier, or the next order of the output is
Continues(t, u) ==
  /\ InFlight(u)
  /\ u.out = t.out
  /\ \/ u.idx = t.idx /\ u.log = t.log
     \/ /\ t.idx < Len(t.out)
        /\ u.idx = t.idx + 1
        /\ u.log = Append(t.log, t.out[t.idx + 1].id)

\* the cycle of task t ends in this step, after the delivery of its last order
EndsComplete(t, u) ==
  /\ ~InFlight(u)
  /\ t.idx = Len(t.out)
  /\ t.log = IdSeq(t.out)

\* C6: the ids a cycle has handed to the notifier are the ids of the first
\* idx orders of the aggregator's output, in that order and each once, where
\* idx is the delivery the cycle is suspended in; a step of the cycle hands
\* over the next order or none, and the cycle ends only after the delivery
\* of the last order, whether deliveries failed or not.
EachOrderDeliveredOnceInOrder ==
  /\ [](\A i \in Cycles :
          LET t == TaskAt(handler, loops, i) IN
          InFlight(t) => /\ t.idx \in 1..Len(t.out)
                         /\ t.log = Delivered(t, t.idx))
  /\ [][\A i \in Cycles :
          LET t == TaskAt(handler, loops, i)
              u == TaskAt(handler', loops', i)
          IN InFlight(t) => Continues(t, u) \/ EndsComplete(t, u)]_vars

\* a cycle is in its last delivery, of two or more, after a failed delivery
DeliveredPastFailure ==
  \E i \in Cycles :
    LET t == TaskAt(handler, loops, i) IN
    /\ InFlight(t)
    /\ t.failed
    /\ Len(t.out) >= 2
    /\ t.idx = Len(t.out)

\* C7: send_order_notification is called at most once for an id, whatever
\* the interleaving of timer cycles and /parse cycles.
NotifiedAtMostOnce == \A id \in AllIds : notified[id] <= 1

\* a /parse cycle that started while a timer cycle was suspended in a
\* delivery is itself in a delivery, and so is a timer cycle
ManualCycleDuringTimerCycle ==
  /\ InFlight(handler)
  /\ handler.overlapped
  /\ \E i \in 1..MaxLoops : InFlight(loops[i]) /\ ~loops[i].overlapped

\* C8: at most one cycle is in flight at any time.
AtMostOneCycleInFlight ==
  Cardinality({ i \in Cycles : InFlight(TaskAt(handler, loops, i)) }) <= 1

\* C9: /toggle leaves every cycle in flight as it is, and a cycle that was
\* toggled with orders still to deliver hands each of them to the notifier,
\* in order: it ends only after the delivery of its last order.
ToggleNeverCancelsCycle ==
  /\ [](\A i \in Cycles :
          LET t == TaskAt(handler, loops, i) IN
          InFlight(t) /\ t.toggled => t.log = Delivered(t, t.idx))
  /\ [][\A i \in Cycles :
          LET t == TaskAt(handler, loops, i)
              u == TaskAt(handler', loops', i)
          IN /\ InFlight(t) /\ is_parsing_active' # is_parsing_active =>
                  InFlight(u) /\ u.out = t.out /\ u.idx = t.idx /\ u.log = t.log
             /\ InFlight(t) /\ t.toggled =>
                  Continues(t, u) \/ EndsComplete(t, u)]_vars

\* the flag is off, and a timer cycle that was toggled before its last
\* delivery is now in its last delivery
ToggledCycleReachedLastOrder ==
  /\ ~is_parsing_active
  /\ \E i \in 1..MaxLoops :
       /\ InFlight(loops[i])
       /\ loops[i].toggled
       /\ loops[i].idx = Len(loops[i].out)

\* C10: while the flag is off no timer cycle starts: a step in which a
\* periodic_parse task parses or starts to deliver is a step from a state
\* with the flag on, and a periodic_parse task that starts or wakes with
\* the flag off ends.
NoTimerCycleWhileOff ==
  [][/\ ( /\ handler' = handler
          /\ \/ parser_vars' # parser_vars
             \/ \E i \in 1..MaxLoops : ~InFlight(loops[i]) /\ InFlight(loops'[i]) )
        => is_parsing_active
     /\ \A i \in 1..MaxLoops :
          ( /\ ~is_parsing_active
            /\ loops[i].pc \in { "created", "sleep" }
            /\ loops'[i] # loops[i] )
          => loops'[i].pc = "none" /\ parser_vars' = parser_vars]_vars

\* the first periodic_parse task has run cycles and has ended, the flag is off
TimerLoopEndedWhileOff ==
  /\ app = "polling"
  /\ ~is_parsing_active
  /\ sent_orders # { }
  /\ loops[1].pc = "none"

(***************************************************************************)
(* Properties of the adapters on failing sites, checked under SpecFetch.   *)
(***************************************************************************)
\* the response the last call got for page k of freelancespace.ru
Response(k) == PageAt(call.fs_site, k)

\* the outcomes of a page request the spec calls a fetch failure
FetchFailures == { "timeout", "conn", "http" }

\* what _parse_html_response gives for pages 1..k, concatenated; a page
\* that was not a 200 response gives nothing
RECURSIVE PagesOrders(_)
PagesOrders(k) ==
  IF k = 0 THEN << >>
  ELSE PagesOrders(k - 1)
       \o (IF Response(k).status = "ok"
           THEN parse_html_response(Response(k).blocks) ELSE << >>)

\* the orders of the blocks of a page that have a title link, in page order
WellFormedOrders(blocks) ==
  LET good == SelectSeq(blocks, LAMBDA b : b.kind = "order")
  IN [ i \in DOMAIN good |->
         Order(good[i].param, "freelancespace.ru", good[i].published,
               good[i].listing) ]

SamePlaces(s, t) == \A x \in Range(s) \cup Range(t) :
  Cardinality({ i \in DOMAIN s : s[i] = x }) = Cardinality({ i \in DOMAIN t : t[i] = x })

DetailFailureStopsDetails ==
  CallMade =>
    /\ \A i \in DOMAIN call.fl_fetch.requests :
         LET q == call.fl_fetch.requests[i] IN
         q.kind = "detail" /\ ~q.ok => i = Len(call.fl_fetch.requests)
    /\ Ids(call.fl_new) = Ids(call.fl_fetch.orders) \ call.fl_before

FsFailed == \E k \in Range(call.fs_fetch.requested) : Response(k).status # "ok"

FlFailed == \E i \in DOMAIN call.fl_fetch.requests : ~call.fl_fetch.requests[i].ok

PagesInOrderUpToCeiling ==
  CallMade =>
    /\ call.fs_fetch.requested = [ i \in 1..Len(call.fs_fetch.requested) |-> i ]
    /\ Len(call.fs_fetch.requested) <= DefaultPages
    /\ \A k \in Range(call.fs_fetch.requested) :
         Response(k).status = "ok" /\ Response(k).blocks = << >> =>
           k = Len(call.fs_fetch.requested)

\* a page with no block came second, with a page of orders behind it
EmptyPageStoppedPaging ==
  /\ CallMade
  /\ Len(call.fs_site) >= 3
  /\ call.fs_fetch.requested = << 1, 2 >>
  /\ Response(1).status = "ok" /\ call.fs_fetch.orders # << >>
  /\ Response(2).status = "ok" /\ Response(2).blocks = << >>
  /\ Response(3).status = "ok" /\ Response(3).blocks # << >>

\* C15: one cycle of FLParser requests the index page once and at most 5
\* project pages.
AtMostFiveDetailFetches ==
  CallMade =>
    /\ Cardinality({ i \in DOMAIN call.fl_fetch.requests :
                       call.fl_fetch.requests[i].kind = "index" }) = 1
    /\ Cardinality({ i \in DOMAIN call.fl_fetch.requests :
                       call.fl_fetch.requests[i].kind = "detail" }) <= FlMaxOrders

\* C16: a block the extractor gives up on is skipped and nothing else: the
\* other blocks of its page are extracted, and the page loop goes on to the
\* next page as after any page that had candidate blocks.
MalformedBlockOnlySkipped ==
  CallMade =>
    \A k \in Range(call.fs_fetch.requested) :
      Response(k).status = "ok" /\ Response(k).blocks # << >> =>
        /\ \A o \in Range(WellFormedOrders(Response(k).blocks)) :
             o \in Range(call.fs_fetch.orders)
        /\ k < DefaultPages => k + 1 \in Range(call.fs_fetch.requested)


(***************************************************************************)
(* The recency normalizer, under SpecNorm.                                 *)
(***************************************************************************)
\* the units of the table in its match order, each with its keywords
UnitOrder == << "seconds", "minutes", "hours", "days", "weeks", "months" >>

UnitKeywords(unit) ==
  CASE unit = "seconds" -> { "sekund" }
    [] unit = "minutes" -> { "minut" }
    [] unit = "hours"   -> { "chas" }
    [] unit = "days"    -> { "den", "dnya", "dney" }
    [] unit = "weeks"   -> { "nedel" }
    [] unit = "months"  -> { "mesyats" }

\* the words of a phrase, lower-cased
LowerWords(p) == { LowerWord(p.words[i]) : i \in DOMAIN p.words }

\* the places in UnitOrder of the units the phrase names
UnitsNamed(p) ==
  { k \in DOMAIN UnitOrder : UnitKeywords(UnitOrder[k]) \cap LowerWords(p) # {} }

\* the ordinal the table gives for a value and a unit
TableOrdinal(value, unit) ==
  CASE unit = "seconds" -> IF value \div 60 >= 1 THEN value \div 60 ELSE 1
    [] unit = "minutes" -> value
    [] unit = "hours"   -> value * 60
    [] unit = "days"    -> value * 1440
    [] unit = "weeks"   -> value * 10080
    [] unit = "months"  -> value * 43200

\* the ordinal of a phrase by the table
TableMinutes(p) ==
  IF p = EmptyPhrase \/ p = Recent THEN 0
  ELSE IF p.nums = << >> \/ UnitsNamed(p) = {} THEN 0
  ELSE LET first == CHOOSE k \in UnitsNamed(p) : \A l \in UnitsNamed(p) : k <= l
       IN TableOrdinal(Head(p.nums), UnitOrder[first])

Normalized(p) == normalizer.done /\ normalizer.arg = p

\* C17: for every phrase, time_to_minutes returns the ordinal of the table:
\* 0 for the empty string and for the sentinel, else the first run of digits
\* converted by the first unit, in the order seconds, minutes, hours, days,
\* weeks, months, that the lower-cased phrase names, and 0 without a digit
\* or without a unit; '5 minutes' gives 5, '2 hours' 120, '45 seconds' 1,
\* '3 days' 4320, '1 week' 10080 and a text without digit or unit 0.
NormalizerFollowsTable ==
  /\ normalizer.done => normalizer.result = TableMinutes(normalizer.arg)
  /\ Normalized(Phrase(<<5>>, <<"minut", "nazad">>)) => normalizer.result = 5
  /\ Normalized(Phrase(<<2>>, <<"chas", "nazad">>)) => normalizer.result = 120
  /\ Normalized(Phrase(<<45>>, <<"sekund", "nazad">>)) => normalizer.result = 1
  /\ Normalized(Phrase(<<3>>, <<"dnya", "nazad">>)) => normalizer.result = 4320
  /\ Normalized(Phrase(<<1>>, <<"nedel", "nazad">>)) => normalizer.result = 10080
  /\ Normalized(Phrase(<< >>, <<"tekst", "tekst">>)) => normalizer.result = 0

\* a phrase naming hours before minutes was converted as minutes
NormalizedMinutesBeforeHours ==
  /\ Normalized(Phrase(<<5, 30>>, <<"Chas", "minut">>))
  /\ normalizer.result = 5

Unreadable(orders) == { i \in DOMAIN orders : ~orders[i].published.str }

\* C19: _sort_orders_by_time always returns a list holding each record it
\* was given, each as often as given; when the key of some record cannot be
\* computed the list returned is the list given, in the order given.
SortFailureReturnsInputOrder ==
  sorter.done =>
    /\ SamePlaces(sorter.result, sorter.arg)
    /\ Unreadable(sorter.arg) # {} => sorter.result = sorter.arg

\* records published 60 minutes ago, unreadable, 120 minutes ago came back
\* in that order
UnsortedListReturned ==
  /\ sorter.done
  /\ Len(sorter.arg) = 3
  /\ sorter.arg[1].published = P60
  /\ sorter.arg[2].published = NotAString
  /\ sorter.arg[3].published = P120
  /\ sorter.result = sorter.arg


(***************************************************************************)
(* The block search, under SpecLocator.                                    *)
(***************************************************************************)
\* the order blocks a selector finds
SelectedOrderBlocks(doc) ==
  { i \in DOMAIN doc :
      /\ is_order_block(doc, i)
      /\ \E k \in DOMAIN css_selectors : Selects(css_selectors[k], doc[i]) }

\* C20: the list of candidate blocks holds no element of the document twice,
\* however many text leaves or strategies lead to it, and holds every order
\* block a selector finds: two different elements are not taken for one.
LocatorListsEachElementOnce ==
  locator.done =>
    /\ \A k, l \in DOMAIN locator.result :
         k # l => locator.result[k] # locator.result[l]
    /\ SelectedOrderBlocks(locator.arg) \subseteq Range(locator.result)


(***************************************************************************)
(* A whole page through the adapter and the aggregator, under SpecPage.    *)
(***************************************************************************)
\* the document of page 1 of the last call
PageDoc == call.fs_site[1].doc

\* the order a card of the page stands for
CardOrder(node) ==
  Order(node.param, "freelancespace.ru", node.published, node.listing)

\* a card with all an order block needs, of its own
WellFormedCard(doc, i) ==
  /\ doc[i].parent = 1
  /\ doc[i].cues > 0 /\ doc[i].links > 0 /\ doc[i].body

\* three blocks side by side: two well-formed cards of two listings and one
\* block that is no order block
ThreeBlocksOneMalformed(doc) ==
  /\ Len(doc) = 4
  /\ \A i \in 2..4 : doc[i].parent = 1 /\ doc[i].tag = "div"
  /\ \E i, j, k \in 2..4 :
       /\ { i, j, k } = 2..4
       /\ WellFormedCard(doc, i) /\ WellFormedCard(doc, j)
       /\ doc[i].listing # doc[j].listing
       /\ ~is_order_block(doc, k)

\* C21: the first cycle on a page of three blocks, one of them without the
\* cues of an order block, gives two orders from the adapter, those of the
\* two well-formed cards, and the aggregator returns these two with the
\* larger recency ordinal first.
ThreeBlocksGiveTwoOrders ==
  ( /\ CallMade
    /\ call.fs_before = { }
    /\ Len(call.fs_site) = 1
    /\ ThreeBlocksOneMalformed(PageDoc) )
  => LET cards == { CardOrder(PageDoc[i]) : i \in { j \in 2..4 : WellFormedCard(PageDoc, j) } }
     IN /\ Len(call.fs_new) = 2
        /\ Range(call.fs_new) = cards
        /\ Len(call.out) = 2
        /\ Range(call.out) = cards
        /\ SortKey(call.out[1]) >= SortKey(call.out[2])

(***************************************************************************)
(* C22                                                                     *)
(***************************************************************************)
\* what the call, made in one piece on the same sites with the same three
\* sent_orders, returns
CycleResult ==
  combined_get_new_orders(fs_site, fl_site, DefaultPages,
                          cycle.fs_before, cycle.fl_before, cycle.cp_before)

RECURSIVE FirstOrderBlock(_, _, _, _)
FirstOrderBlock(doc, parent, depth, limit) ==
  IF parent = 0 \/ depth >= limit THEN 0
  ELSE IF is_order_block(doc, parent) THEN parent
  ELSE FirstOrderBlock(doc, doc[parent].parent, depth + 1, limit)

\* the elements the three methods are to list: the first order block above
\* a text leaf with the cue, the order blocks a selector finds, the first
\* order block above an order link
FirstOrderBlocks(doc) ==
  ( { FirstOrderBlock(doc, i, 0, ButtonDepth) : i \in { j \in DOMAIN doc : doc[j].cues > 0 } }
    \cup SelectedOrderBlocks(doc)
    \cup { FirstOrderBlock(doc, i, 0, LinkDepth) : i \in { j \in DOMAIN doc : doc[j].links > 0 } } )
  \ { 0 }

\* C23: the walk up from an order link ends at the first ancestor that is an
\* order block, also when that ancestor is in the list already: nothing
\* above it is listed for that link, so the list holds only first order
\* blocks of some anchor and order blocks a selector finds.
LinkWalkEndsAtFirstOrderBlock ==
  locator.done => Range(locator.result) \subseteq FirstOrderBlocks(locator.arg)

(***************************************************************************)
(* C24                                                                     *)
(***************************************************************************)
\* a name-shaped text: shorter than the limit, not the title, no ellipsis
NameShaped(text, title) ==
  Len(text) < AuthorLimit /\ text # title /\ ~HasEllipsis(text)

\* the name-shaped texts the scan meets: in the spans hidden on small
\* screens first, else in the semibold spans
RECURSIVE NamesIn(_, _, _)
NamesIn(spans, class, title) ==
  IF spans = << >> THEN << >>
  ELSE (IF class \in Head(spans).classes /\ NameShaped(Head(spans).text, title)
        THEN << Head(spans).text >> ELSE << >>)
       \o NamesIn(Tail(spans), class, title)

NameFound(spans, title) ==
  LET names == NamesIn(spans, "sm:inline", title) \o NamesIn(spans, "font-semibold", title)
  IN IF names = << >> THEN << >> ELSE Head(names)

\* the text is a non-empty text written twice
Doubled(text) ==
  /\ Len(text) >= 2
  /\ Len(text) % 2 = 0
  /\ SubSeq(text, 1, Len(text) \div 2) = SubSeq(text, Len(text) \div 2 + 1, Len(text))

\* C24: when the name found in the participant block is a text written
\* twice ('IvanIvan'), the author extracted is that text once ('Ivan').
DoubledNameCollapsed ==
  extractor.done =>
    LET name == NameFound(extractor.arg.spans, extractor.arg.title)
    IN Doubled(name) => extractor.result = SubSeq(name, 1, Len(name) \div 2)

(***************************************************************************)
(* C25                                                                     *)
(***************************************************************************)
\* C25: whenever the page text holds the phrase 'по договорённости', the
\* price extracted is "По договорённости", whatever amounts or labelled
\* budgets the text also holds and wherever they stand.
NegotiablePhraseWins ==
  extractor.done /\ negotiable_match(extractor.arg)
    => extractor.result = Negotiable

(***************************************************************************)
(* C26                                                                     *)
(***************************************************************************)
\* C26: with the adapters called only by CombinedParser.get_new_orders, the
\* aggregator's sent_orders is, after every call, the union of the two
\* adapters' sent_orders, and none of the three sets ever loses an id.
SentOrdersIsUnionAndGrows ==
  /\ [](sent_orders = fs_sent_orders \cup fl_sent_orders)
  /\ [][ /\ fs_sent_orders \subseteq fs_sent_orders'
         /\ fl_sent_orders \subseteq fl_sent_orders'
         /\ sent_orders \subseteq sent_orders' ]_vars

\* a call in which both adapters returned a record with the same id, and a
\* record each that the other did not return: the id is in all three sets
BothAdaptersMarkedOneId ==
  /\ CallMade
  /\ Ids(call.fs_new) \cap Ids(call.fl_new) # { }
  /\ Ids(call.fs_new) \ Ids(call.fl_new) # { }
  /\ fs_sent_orders # fl_sent_orders
  /\ sent_orders = fs_sent_orders \cup fl_sent_orders

(***************************************************************************)
(* C27                                                                     *)
(***************************************************************************)
\* the periodic_parse tasks that exist: created and not yet ended
TimerLoops == { i \in 1..MaxLoops : loops[i].pc # "none" }

\* C27: whatever /toggle commands have arrived, at most one periodic_parse
\* task exists at any time; turning the timer off and on again while the
\* task is in its sleep does not leave two of them.
AtMostOneTimerLoop == Cardinality(TimerLoops) <= 1

(***************************************************************************)
(* C28                                                                     *)
(***************************************************************************)
\* the id is in the sent_orders of an adapter and of the aggregator
MarkedSeen(id, fs_sent, fl_sent, cp_sent) ==
  id \in cp_sent /\ id \in fs_sent \cup fl_sent

\* C28: an id is in an adapter's sent_orders and in the aggregator's before
\* a record with it is handed to send_order_notification, and stays there
\* whether the notification goes through or fails; once handed over, no
\* later step of any cycle hands a record with that id over again.  (The
\* outcome of a notification is drawn in the step in which it returns, so
\* each step stands for the failed and for the successful delivery.)
FailedDeliveryNotRetried ==
  [][ \A id \in AllIds :
        /\ notified'[id] # notified[id] => notified[id] = 0
        /\ ( \/ notified'[id] > 0
             \/ \E i \in Cycles : id \in Ids(TaskAt(handler', loops', i).out) )
           => MarkedSeen(id, fs_sent_orders', fl_sent_orders', sent_orders') ]_vars

\* the first of two deliveries of a cycle has failed and the second is under
\* way; the id of the first is marked and was handed over once, and another
\* cycle is delivering other orders
FailedIdStaysMarked ==
  \E i, j \in Cycles :
    LET t == TaskAt(handler, loops, i)
        u == TaskAt(handler, loops, j)
    IN /\ i # j
       /\ InFlight(t) /\ t.failed /\ Len(t.out) = 2 /\ t.idx = 2
       /\ MarkedSeen(t.out[1].id, fs_sent_orders, fl_sent_orders, sent_orders)
       /\ notified[t.out[1].id] = 1
       /\ InFlight(u)
       /\ t.out[1].id \notin Ids(u.out)

(***************************************************************************)
(* C29                                                                     *)
(***************************************************************************)
\* C29: the list one call of an adapter's get_new_orders returns holds no
\* two records with the same id, also when the block search lists an
\* element twice, lists an element and one inside it that give the same
\* order, or the same order stands on two pages of the call (and, on fl.ru,
\* twice on the index page).
AdapterListHasNoIdTwice ==
  CallMade => NoDuplicateIds(call.fs_new) /\ NoDuplicateIds(call.fl_new)

\* a call on two pages with the same document, in which the block search
\* listed one element twice and also an element that holds it, all giving
\* the order the adapter returned once
SameOrderExtractedOften ==
  /\ CallMade
  /\ Len(call.fs_site) = 2
  /\ LET doc == call.fs_site[1].doc
         order_blocks == find_order_blocks(doc)
     IN /\ \E k, l \in DOMAIN order_blocks :
             k # l /\ order_blocks[k] = order_blocks[l]
        /\ \E k, l \in DOMAIN order_blocks :
             /\ order_blocks[k] # order_blocks[l]
             /\ InSubtree(doc, order_blocks[k], order_blocks[l])
             /\ block_read(doc, order_blocks[k]) = block_read(doc, order_blocks[l])
  /\ Len(FsExtracted) >= 6
  /\ Len(call.fs_new) = 1

(***************************************************************************)
(* C30                                                                     *)
(***************************************************************************)
\* the pages the last call requested from freelancespace.ru
Requested == Range(call.fs_fetch.requested)

\* C30: when the work on page k raises an exception that is no timeout and
\* no connection error, parse_orders goes on to request page k + 1 unless k
\* is the last page it may request, and the orders of all the other pages
\* it requests are in what it returns, and from there in what the adapter
\* returns unless sent before.
OtherExceptionSkipsOnePage ==
  CallMade =>
    \A k \in Requested :
      Response(k).status = "exc" =>
        /\ k < DefaultPages => k + 1 \in Requested
        /\ call.fs_fetch.orders = PagesOrders(Len(call.fs_fetch.requested))
        /\ SamePlaces(FsExtracted, PagesOrders(Len(call.fs_fetch.requested)))
        /\ Ids(call.fs_new) = Ids(PagesOrders(Len(call.fs_fetch.requested))) \ call.fs_before

\* page 2 raised between two pages with an order each; both orders were
\* returned
PageSkippedBetweenOrders ==
  /\ CallMade
  /\ call.fs_fetch.requested = << 1, 2, 3 >>
  /\ Response(1).status = "ok"
  /\ Response(2).status = "exc"
  /\ Response(3).status = "ok"
  /\ Len(parse_html_response(Response(1).blocks)) = 1
  /\ Len(parse_html_response(Response(3).blocks)) = 1
  /\ Len(call.fs_new) = 2

====
